---- MODULE Spec2Model ----
(***************************************************************************)
(* LifeSignal backend: the contact-relationship callables of               *)
(* FirebaseBackend/functions (addContactRelation, updateContactRoles,      *)
(* updateContactRelation, deleteContactRelation, pingDependent,            *)
(* respondToPing, respondToAllPings, clearPing) over the users collection. *)
(* A user document is modelled by its contacts array; a contact entry by   *)
(* the fields the callables read or write.                                 *)
(***************************************************************************)
EXTENDS Integers, Sequences, FiniteSets, TLC

(* ---------------------------------------------------------------- bounds *)
\* The clock stops at MaxTime: every completed write takes one instant.
MaxTime == 2
\* Concurrent invocations in flight at once (SpecConc).
MaxProcs == 2
\* Scheduled scans after the first instant of a behaviour of SpecScan.
MaxScans == 2
\* Scheduled scans in a behaviour of SpecCycle.
MaxCycleScans == 4

(* ------------------------------------------------------------- documents *)
UserIds == {"u1", "u2", "u3"}
\* An id that is indexed in qr_lookup but has no users/ document.
GhostId == "u9"
AllIds == UserIds \cup {GhostId}

\* db.collection('users').doc(id).path
Path(id) == <<"users", id>>
\* DocumentReference.id
DocId(path) == path[2]

UserPaths == {Path(u) : u \in UserIds}
AllPaths == {Path(u) : u \in AllIds}
\* A request field that was not supplied (undefined / empty string).
NoPath == <<>>
NoId == ""

\* qr_lookup: the document id is the user id, the field qrCodeId the code.
QrLookup == [u \in AllIds |-> "qr-" \o u]
UnknownQr == "qr-none"
QrCodes == {QrLookup[u] : u \in AllIds} \cup {UnknownQr}

\* db.collection('qr_lookup').where('qrCodeId','==',qrCode).limit(1).get()
QrQuery(qrCode) == {u \in AllIds : QrLookup[u] = qrCode}

(* ------------------------------------------------------------ entry model *)
\* Optional fields: a missing field is Undef, null timestamps are NoTs.
Undef == "undefined"
NoTs == 0
OptBool == {Undef, "true", "false"}
ToOpt(b) == IF b THEN "true" ELSE "false"
FromOpt(x) == x = "true"

\* The two stored shapes of the reference to the other user.
FormPath == "referencePath"
FormRef == "reference"

\* HttpsError codes as the caller sees them; Ok is a returned result.
Ok == "ok"
Unauthenticated == "unauthenticated"
InvalidArgument == "invalid-argument"
NotFound == "not-found"
AlreadyExists == "already-exists"
FailedPrecondition == "failed-precondition"
Internal == "internal"

(* ----------------------------------------------------------------- state *)
VARIABLES
    contacts,   \* users/{id}.contacts of every existing user document
    fcmToken,   \* users/{id}.fcmToken (Undef: the field is absent)
    now,        \* the clock read by admin.firestore.Timestamp.now()
    last,       \* the request and outcome of the most recent invocation
    outbox,     \* messages handed to admin.messaging().send() by that invocation
    procs,      \* invocations in flight (used by SpecConc only)
    profile,    \* users/{id}: name, checkInInterval, lastCheckedIn and the two notify flags
    history     \* the scans so far, each with its instant and its messages (SpecCycle only)

vars == <<contacts, fcmToken, now, last, outbox, procs, profile, history>>

(* ------------------------------------------------------- contact entries *)
\* Faulty variant of NewEntry: notifyOnExpiry is enabled whatever the role.
NewEntryNotifyAll(target, isResponder, isDependent, t) ==
    [form |-> FormPath, target |-> target,
     isResponder |-> isResponder, isDependent |-> isDependent,
     sendPings |-> "true", receivePings |-> "true",
     notifyOnCheckIn |-> ToOpt(isResponder), notifyOnExpiry |-> "true",
     nickname |-> Undef, notes |-> Undef,
     lastUpdated |-> t,
     incomingPingTimestamp |-> NoTs, outgoingPingTimestamp |-> NoTs]

\* The entry addContactRelation builds for `target` (userEntry / contactEntry).
NewEntry(target, isResponder, isDependent, t) ==
    [form |-> FormPath, target |-> target,
     isResponder |-> isResponder, isDependent |-> isDependent,
     sendPings |-> "true", receivePings |-> "true",
     notifyOnCheckIn |-> ToOpt(isResponder), notifyOnExpiry |-> ToOpt(isResponder),
     nickname |-> Undef, notes |-> Undef,
     lastUpdated |-> t,
     incomingPingTimestamp |-> NoTs, outgoingPingTimestamp |-> NoTs]

\* An entry as the first release stored it: { reference, isResponder, isDependent }.
LegacyEntry(target, isResponder, isDependent) ==
    [form |-> FormRef, target |-> target,
     isResponder |-> isResponder, isDependent |-> isDependent,
     sendPings |-> Undef, receivePings |-> Undef,
     notifyOnCheckIn |-> Undef, notifyOnExpiry |-> Undef,
     nickname |-> Undef, notes |-> Undef,
     lastUpdated |-> NoTs,
     incomingPingTimestamp |-> NoTs, outgoingPingTimestamp |-> NoTs]

\* c.reference?.path
ReferenceDotPath(c) == IF c.form = FormRef THEN c.target ELSE NoPath
\* c.referencePath
ReferencePathField(c) == IF c.form = FormPath THEN c.target ELSE NoPath
\* c.contact?.path : no stored entry carries a `contact` field
ContactDotPath(c) == NoPath
\* JavaScript a || b on paths
OrElse(a, b) == IF a # NoPath THEN a ELSE b

\* Faulty variant of AddEntryPath: the referencePath field is not consulted.
AddEntryPathNoString(c) == OrElse(ReferenceDotPath(c), ContactDotPath(c))

\* addContactRelation: c.reference?.path || c.referencePath || c.contact?.path
AddEntryPath(c) == OrElse(OrElse(ReferenceDotPath(c), ReferencePathField(c)), ContactDotPath(c))
\* updateContactRoles, pingDependent, respondToPing, respondToAllPings, clearPing:
\* c.reference?.path || c.referencePath
EntryPath(c) == OrElse(ReferenceDotPath(c), ReferencePathField(c))
\* updateContactRelation: c.reference?.path || c.contact?.path
RelationEntryPath(c) == OrElse(ReferenceDotPath(c), ContactDotPath(c))

\* Array.prototype.findIndex over the positions its callback accepts,
\* 1-based; 0 stands for -1.
FindIndex(hits) ==
    IF hits = {} THEN 0 ELSE CHOOSE i \in hits : \A j \in hits : i <= j

\* snap.exists
Exists(store, path) == path \in DOMAIN store

(* -------------------------------------------------------------- outcomes *)
\* What one invocation decides after its reads: the kind the caller sees, the
\* document updates it issues (in issue order), the result's contactId and
\* the push message it sends afterwards.
NoMsg == [token |-> Undef, title |-> Undef, about |-> NoId]
\* Faulty variant of Failure: the error is thrown after an update that
\* empties the contacts of users/u1 has been issued.
FailureAfterUpdate(kind) ==
    [kind |-> kind, writes |-> <<[doc |-> Path("u1"), contacts |-> <<>>]>>,
     contactId |-> NoId, msg |-> NoMsg]

\* throw new HttpsError(kind, ...) before any update is issued
Failure(kind) == [kind |-> kind, writes |-> <<>>, contactId |-> NoId, msg |-> NoMsg]
Success(writes, contactId, msg) ==
    [kind |-> Ok, writes |-> writes, contactId |-> contactId, msg |-> msg]
Update(doc, list) == [doc |-> doc, contacts |-> list]

\* Faulty variant of NoAuth: the caller's identity is never asked for.
NoAuthNever(req) == FALSE

\* if (!request.auth)
NoAuth(req) == ~req.auth

(* ---------------------------------------------------- addContactRelation *)
\* The catch block of addContactRelation: HttpsError(error.code || "internal").
AddRethrow(kind) == kind

\* Faulty variant of IsSelf: the self check never fires.
IsSelfNever(userId, contactUserId) == FALSE

\* if (userId === contactUserId): adding yourself
IsSelf(userId, contactUserId) == userId = contactUserId

AddContactRelationOutcome(store, t, req) ==
    IF NoAuth(req) THEN Failure(Unauthenticated)
    ELSE IF req.userId = NoId \/ req.qrCode = NoId THEN Failure(InvalidArgument)
    ELSE IF QrQuery(req.qrCode) = {} THEN Failure(AddRethrow(NotFound))
    ELSE
      LET contactUserId == CHOOSE u \in QrQuery(req.qrCode) : TRUE
          userRef == Path(req.userId)
          contactRef == Path(contactUserId)
      IN
      IF IsSelf(req.userId, contactUserId) THEN Failure(AddRethrow(InvalidArgument))
      ELSE IF ~Exists(store, userRef) \/ ~Exists(store, contactRef)
        THEN Failure(AddRethrow(NotFound))
      ELSE
        LET userContacts == store[userRef]
            contactContacts == store[contactRef]
            Same(c) == AddEntryPath(c) = contactRef
            existingContactIndex == FindIndex({i \in 1..Len(userContacts) : Same(userContacts[i])})
            userEntry == NewEntry(contactRef, FromOpt(req.isResponder), FromOpt(req.isDependent), t)
            contactEntry == NewEntry(userRef, FromOpt(req.isDependent), FromOpt(req.isResponder), t)
        IN
        IF existingContactIndex # 0 THEN Failure(AddRethrow(AlreadyExists))
        ELSE Success(<<Update(userRef, Append(userContacts, userEntry)),
                       Update(contactRef, Append(contactContacts, contactEntry))>>,
                     contactUserId, NoMsg)

(* ---------------------------------------------------- updateContactRoles *)
\* The catch blocks of every callable but addContactRelation:
\* HttpsError("internal", ...), whatever was thrown inside the try.
RethrowInternal(kind) == Internal

\* userContact.isResponder = isResponder; .isDependent = isDependent; .lastUpdated = now
RolesUserContact(c, req, t) ==
    [c EXCEPT !.isResponder = FromOpt(req.isResponder),
              !.isDependent = FromOpt(req.isDependent),
              !.lastUpdated = t]

\* Faulty variant of RolesContactUser: the flags are copied, not swapped.
RolesContactUserCopied(c, req, t) ==
    [c EXCEPT !.isResponder = FromOpt(req.isResponder),
              !.isDependent = FromOpt(req.isDependent),
              !.lastUpdated = t]

\* contactUser.isResponder = isDependent; .isDependent = isResponder; .lastUpdated = now
RolesContactUser(c, req, t) ==
    [c EXCEPT !.isResponder = FromOpt(req.isDependent),
              !.isDependent = FromOpt(req.isResponder),
              !.lastUpdated = t]

UpdateContactRolesOutcome(store, t, req) ==
    IF NoAuth(req) THEN Failure(Unauthenticated)
    ELSE IF req.userRefPath = NoPath \/ req.contactRefPath = NoPath
      THEN Failure(InvalidArgument)
    ELSE IF req.isResponder = Undef \/ req.isDependent = Undef
      THEN Failure(InvalidArgument)
    ELSE
      LET userRef == req.userRefPath
          contactRef == req.contactRefPath
      IN
      IF ~Exists(store, userRef) \/ ~Exists(store, contactRef)
        THEN Failure(RethrowInternal(NotFound))
      ELSE
        LET userContacts == store[userRef]
            contactContacts == store[contactRef]
            IsContact(c) == EntryPath(c) = contactRef
            IsUser(c) == EntryPath(c) = userRef
            userContactIndex == FindIndex({i \in 1..Len(userContacts) : IsContact(userContacts[i])})
            contactUserIndex == FindIndex({i \in 1..Len(contactContacts) : IsUser(contactContacts[i])})
        IN
        IF userContactIndex = 0 \/ contactUserIndex = 0
          THEN Failure(RethrowInternal(NotFound))
        ELSE
          LET userContact == RolesUserContact(userContacts[userContactIndex], req, t)
              contactUser == RolesContactUser(contactContacts[contactUserIndex], req, t)
          IN Success(<<Update(userRef, [userContacts EXCEPT ![userContactIndex] = userContact]),
                       Update(contactRef, [contactContacts EXCEPT ![contactUserIndex] = contactUser])>>,
                     NoId, NoMsg)

(* ------------------------------------------------- updateContactRelation *)
\* if (x !== undefined) entry.field = x
Given(x, old) == IF x # Undef THEN x ELSE old
GivenBool(x, old) == IF x # Undef THEN FromOpt(x) ELSE old

\* Faulty variant of RelationContactUser: the role flags are not mirrored.
RelationContactUserNoRoles(back, req, t) ==
    [back EXCEPT
        !.lastUpdated = t,
        !.receivePings = Given(req.sendPings, back.receivePings),
        !.sendPings = Given(req.receivePings, back.sendPings)]

\* updatedContactUser: the reciprocal entry, with the role flags and the
\* ping preferences the request gave, swapped.
RelationContactUser(back, req, t) ==
    [back EXCEPT
        !.lastUpdated = t,
        !.isDependent = GivenBool(req.isResponder, back.isDependent),
        !.isResponder = GivenBool(req.isDependent, back.isResponder),
        !.receivePings = Given(req.sendPings, back.receivePings),
        !.sendPings = Given(req.receivePings, back.sendPings)]

UpdateContactRelationOutcome(store, t, req) ==
    IF NoAuth(req) THEN Failure(Unauthenticated)
    ELSE IF req.userRefPath = NoPath \/ req.contactRefPath = NoPath
      THEN Failure(InvalidArgument)
    ELSE
      LET userRef == req.userRefPath
          contactRef == req.contactRefPath
      IN
      IF ~Exists(store, userRef) \/ ~Exists(store, contactRef)
        THEN Failure(RethrowInternal(NotFound))
      ELSE
        LET userContacts == store[userRef]
            contactContacts == store[contactRef]
            IsContact(c) == RelationEntryPath(c) = contactRef
            IsUser(c) == RelationEntryPath(c) = userRef
            userContactIndex == FindIndex({i \in 1..Len(userContacts) : IsContact(userContacts[i])})
            contactUserIndex == FindIndex({i \in 1..Len(contactContacts) : IsUser(contactContacts[i])})
        IN
        IF userContactIndex = 0 THEN Failure(RethrowInternal(NotFound))
        ELSE
          LET old == userContacts[userContactIndex]
              updatedUserContact == [old EXCEPT
                  !.lastUpdated = t,
                  !.isResponder = GivenBool(req.isResponder, old.isResponder),
                  !.isDependent = GivenBool(req.isDependent, old.isDependent),
                  !.sendPings = Given(req.sendPings, old.sendPings),
                  !.receivePings = Given(req.receivePings, old.receivePings),
                  !.notifyOnCheckIn = Given(req.notifyOnCheckIn, old.notifyOnCheckIn),
                  !.notifyOnExpiry = Given(req.notifyOnExpiry, old.notifyOnExpiry),
                  !.nickname = Given(req.nickname, old.nickname),
                  !.notes = Given(req.notes, old.notes)]
              userUpdate == Update(userRef,
                  [userContacts EXCEPT ![userContactIndex] = updatedUserContact])
          IN
          IF req.updateReciprocal /\ contactUserIndex # 0
            THEN
              LET updatedContactUser ==
                      RelationContactUser(contactContacts[contactUserIndex], req, t)
              IN Success(<<userUpdate,
                           Update(contactRef,
                               [contactContacts EXCEPT ![contactUserIndex] = updatedContactUser])>>,
                         NoId, NoMsg)
            ELSE Success(<<userUpdate>>, NoId, NoMsg)

(* ------------------------------------------------- deleteContactRelation *)
\* Faulty variant of KeepEntry: an entry with a pending outgoing ping is kept.
KeepEntryPinged(entry, targetPath) ==
    IF entry.outgoingPingTimestamp # NoTs THEN TRUE
    ELSE entry.target # targetPath

\* data_management/deleteContactRelation: updateContacts' filter callback.
\*   ref = entry.reference ?? entry.contact ?? entry.referencePath
\* A string is compared to targetPath, an object by its path.
KeepEntry(entry, targetPath) ==
    IF entry.form \in {FormRef, FormPath} THEN entry.target # targetPath
    ELSE TRUE

\* functions/deleteContactRelation: updateContacts' filter callback.
\*   ref = entry.reference ?? entry.contact
\*   ref !== targetPath && ref?.path !== targetPath
KeepEntryV1(entry, targetPath) ==
    IF entry.form = FormRef THEN entry.target # targetPath
    ELSE TRUE

\* Faulty variant of updateContacts: the filter keeps nothing.
updateContactsNone(raw, targetPath) == SelectSeq(raw, LAMBDA entry : FALSE)

updateContacts(raw, targetPath) ==
    LET Keep(entry) == KeepEntry(entry, targetPath) IN SelectSeq(raw, Keep)

updateContactsV1(raw, targetPath) ==
    LET Keep(entry) == KeepEntryV1(entry, targetPath) IN SelectSeq(raw, Keep)

DeleteContactRelationOutcome(store, t, req) ==
    IF NoAuth(req) THEN Failure(Unauthenticated)
    ELSE IF req.userRefPath = NoPath \/ req.contactRefPath = NoPath
      THEN Failure(InvalidArgument)
    ELSE
      LET userARef == req.userRefPath
          userBRef == req.contactRefPath
      IN
      IF ~Exists(store, userARef) \/ ~Exists(store, userBRef)
        THEN Failure(RethrowInternal(NotFound))
      ELSE Success(<<Update(userARef, updateContacts(store[userARef], userBRef)),
                     Update(userBRef, updateContacts(store[userBRef], userARef))>>,
                   NoId, NoMsg)

DeleteContactRelationV1Outcome(store, t, req) ==
    IF NoAuth(req) THEN Failure(Unauthenticated)
    ELSE IF req.userRefPath = NoPath \/ req.contactRefPath = NoPath
      THEN Failure(InvalidArgument)
    ELSE
      LET userARef == req.userRefPath
          userBRef == req.contactRefPath
      IN
      IF ~Exists(store, userARef) \/ ~Exists(store, userBRef)
        THEN Failure(RethrowInternal(NotFound))
      ELSE Success(<<Update(userARef, updateContactsV1(store[userARef], userBRef)),
                     Update(userBRef, updateContactsV1(store[userBRef], userARef))>>,
                   NoId, NoMsg)

(* --------------------------------------------------------- pingDependent *)
\* The "New Ping" message for the contact, if the contact has an fcmToken.
PingMsg(tokens, userRef, contactRef) ==
    IF tokens[contactRef] # Undef
      THEN [token |-> tokens[contactRef], title |-> "New Ping", about |-> DocId(userRef)]
      ELSE NoMsg

\* Faulty variant of NotDependent: the role guard never fires.
NotDependentNever(c) == FALSE

\* pingDependent, clearPing: if (!userContacts[userContactIndex].isDependent)
NotDependent(c) == ~c.isDependent

\* Faulty variant of PingUserContact: the sender's side is not stamped.
PingUserContactUnstamped(c, t) == [c EXCEPT !.lastUpdated = t]

\* userContact.outgoingPingTimestamp = now; userContact.lastUpdated = now
PingUserContact(c, t) == [c EXCEPT !.outgoingPingTimestamp = t, !.lastUpdated = t]
\* contactUser.incomingPingTimestamp = now; contactUser.lastUpdated = now
PingContactUser(c, t) == [c EXCEPT !.incomingPingTimestamp = t, !.lastUpdated = t]

PingDependentOutcome(store, tokens, t, req) ==
    IF NoAuth(req) THEN Failure(Unauthenticated)
    ELSE IF req.userRefPath = NoPath \/ req.contactRefPath = NoPath
      THEN Failure(InvalidArgument)
    ELSE
      LET userRef == req.userRefPath
          contactRef == req.contactRefPath
      IN
      IF ~Exists(store, userRef) \/ ~Exists(store, contactRef)
        THEN Failure(RethrowInternal(NotFound))
      ELSE
        LET userContacts == store[userRef]
            contactContacts == store[contactRef]
            IsContact(c) == EntryPath(c) = contactRef
            IsUser(c) == EntryPath(c) = userRef
            userContactIndex == FindIndex({i \in 1..Len(userContacts) : IsContact(userContacts[i])})
            contactUserIndex == FindIndex({i \in 1..Len(contactContacts) : IsUser(contactContacts[i])})
        IN
        IF userContactIndex = 0 \/ contactUserIndex = 0
          THEN Failure(RethrowInternal(NotFound))
        ELSE IF NotDependent(userContacts[userContactIndex])
          THEN Failure(RethrowInternal(FailedPrecondition))
        ELSE
          LET userContact == PingUserContact(userContacts[userContactIndex], t)
              contactUser == PingContactUser(contactContacts[contactUserIndex], t)
          IN Success(<<Update(userRef, [userContacts EXCEPT ![userContactIndex] = userContact]),
                       Update(contactRef, [contactContacts EXCEPT ![contactUserIndex] = contactUser])>>,
                     NoId, PingMsg(tokens, userRef, contactRef))

\* Faulty variant of AbsorbSendError: a failed send reaches the outer
\* catch, after both updates have been issued.
PropagateSendError(out, sendOk) ==
    IF out.msg # NoMsg /\ ~sendOk THEN [out EXCEPT !.kind = RethrowInternal(Internal)]
    ELSE out

\* try { await admin.messaging().send(...) } catch (notificationError) { }:
\* the outcome is the same whether or not the send threw.
AbsorbSendError(out, sendOk) == out

(* --------------------------------------------------------- respondToPing *)
\* Faulty variant of RespondUserContact: the responder's own outgoing ping
\* is cleared in place of the incoming one.
RespondUserContactSwapped(c, t) == [c EXCEPT !.outgoingPingTimestamp = NoTs, !.lastUpdated = t]

\* userContact.incomingPingTimestamp = null; userContact.lastUpdated = now
RespondUserContact(c, t) == [c EXCEPT !.incomingPingTimestamp = NoTs, !.lastUpdated = t]
\* Faulty variant of RespondContactUser: the sender's outgoing ping stays.
RespondContactUserKeeps(c, t) == [c EXCEPT !.lastUpdated = t]

\* Faulty variant of RespondContactUser: both of the sender's timestamps
\* are cleared.
RespondContactUserBoth(c, t) ==
    [c EXCEPT !.outgoingPingTimestamp = NoTs, !.incomingPingTimestamp = NoTs,
              !.lastUpdated = t]

\* contactUser.outgoingPingTimestamp = null; contactUser.lastUpdated = now
RespondContactUser(c, t) == [c EXCEPT !.outgoingPingTimestamp = NoTs, !.lastUpdated = t]

RespondToPingOutcome(store, tokens, t, req) ==
    IF NoAuth(req) THEN Failure(Unauthenticated)
    ELSE IF req.userRefPath = NoPath \/ req.contactRefPath = NoPath
      THEN Failure(InvalidArgument)
    ELSE
      LET userRef == req.userRefPath
          contactRef == req.contactRefPath
      IN
      IF ~Exists(store, userRef) \/ ~Exists(store, contactRef)
        THEN Failure(RethrowInternal(NotFound))
      ELSE
        LET userContacts == store[userRef]
            contactContacts == store[contactRef]
            IsContact(c) == EntryPath(c) = contactRef
            IsUser(c) == EntryPath(c) = userRef
            userContactIndex == FindIndex({i \in 1..Len(userContacts) : IsContact(userContacts[i])})
            contactUserIndex == FindIndex({i \in 1..Len(contactContacts) : IsUser(contactContacts[i])})
        IN
        IF userContactIndex = 0 \/ contactUserIndex = 0
          THEN Failure(RethrowInternal(NotFound))
        ELSE
          LET userContact == RespondUserContact(userContacts[userContactIndex], t)
              contactUser == RespondContactUser(contactContacts[contactUserIndex], t)
          IN Success(<<Update(userRef, [userContacts EXCEPT ![userContactIndex] = userContact]),
                       Update(contactRef, [contactContacts EXCEPT ![contactUserIndex] = contactUser])>>,
                     NoId, NoMsg)

(* ------------------------------------------------------------- clearPing *)
\* userContact.outgoingPingTimestamp = null; userContact.lastUpdated = now
ClearUserContact(c, t) == [c EXCEPT !.outgoingPingTimestamp = NoTs, !.lastUpdated = t]
\* Faulty variant of ClearContactUser: the dependent's incoming ping stays.
ClearContactUserKeeps(c, t) == [c EXCEPT !.lastUpdated = t]

\* contactUser.incomingPingTimestamp = null; contactUser.lastUpdated = now
ClearContactUser(c, t) == [c EXCEPT !.incomingPingTimestamp = NoTs, !.lastUpdated = t]

ClearPingOutcome(store, tokens, t, req) ==
    IF NoAuth(req) THEN Failure(Unauthenticated)
    ELSE IF req.userRefPath = NoPath \/ req.contactRefPath = NoPath
      THEN Failure(InvalidArgument)
    ELSE
      LET userRef == req.userRefPath
          contactRef == req.contactRefPath
      IN
      IF ~Exists(store, userRef) \/ ~Exists(store, contactRef)
        THEN Failure(RethrowInternal(NotFound))
      ELSE
        LET userContacts == store[userRef]
            contactContacts == store[contactRef]
            IsContact(c) == EntryPath(c) = contactRef
            IsUser(c) == EntryPath(c) = userRef
            userContactIndex == FindIndex({i \in 1..Len(userContacts) : IsContact(userContacts[i])})
            contactUserIndex == FindIndex({i \in 1..Len(contactContacts) : IsUser(contactContacts[i])})
        IN
        IF userContactIndex = 0 \/ contactUserIndex = 0
          THEN Failure(RethrowInternal(NotFound))
        ELSE IF NotDependent(userContacts[userContactIndex])
          THEN Failure(RethrowInternal(FailedPrecondition))
        ELSE
          LET userContact == ClearUserContact(userContacts[userContactIndex], t)
              contactUser == ClearContactUser(contactContacts[contactUserIndex], t)
          IN Success(<<Update(userRef, [userContacts EXCEPT ![userContactIndex] = userContact]),
                       Update(contactRef, [contactContacts EXCEPT ![contactUserIndex] = contactUser])>>,
                     NoId, NoMsg)

(* ----------------------------------------------------- respondToAllPings *)
\* Faulty variant of ClearIncoming: the entries are touched but the incoming
\* timestamps are left in place.
ClearIncomingStale(userContacts, contactsWithPings, t) ==
    [i \in 1..Len(userContacts) |->
        IF userContacts[i].incomingPingTimestamp # NoTs
          THEN [userContacts[i] EXCEPT !.lastUpdated = t]
          ELSE userContacts[i]]

\* The loop over contactsWithPings: each one clears the first entry of
\* userContacts whose path equals its own.
RECURSIVE ClearIncoming(_, _, _)
ClearIncoming(userContacts, contactsWithPings, t) ==
    IF contactsWithPings = <<>> THEN userContacts
    ELSE
      LET contact == Head(contactsWithPings)
          SamePath(c) == EntryPath(c) = EntryPath(contact)
          contactIndex == FindIndex({i \in 1..Len(userContacts) : SamePath(userContacts[i])})
          cleared == IF contactIndex # 0
                       THEN [userContacts EXCEPT
                               ![contactIndex].incomingPingTimestamp = NoTs,
                               ![contactIndex].lastUpdated = t]
                       ELSE userContacts
      IN ClearIncoming(cleared, Tail(contactsWithPings), t)

RespondToAllPingsOutcome(store, t, req) ==
    IF NoAuth(req) THEN Failure(Unauthenticated)
    ELSE IF req.userRefPath = NoPath THEN Failure(InvalidArgument)
    ELSE
      LET userRef == req.userRefPath IN
      IF ~Exists(store, userRef) THEN Failure(RethrowInternal(NotFound))
      ELSE
        LET userContacts == store[userRef]
            HasPing(c) == c.incomingPingTimestamp # NoTs
            contactsWithPings == SelectSeq(userContacts, HasPing)
        IN
        IF Len(contactsWithPings) = 0 THEN Success(<<>>, NoId, NoMsg)
        ELSE Success(<<Update(userRef, ClearIncoming(userContacts, contactsWithPings, t))>>,
                     NoId, NoMsg)

(* -------------------------------------------------------------- requests *)
\* request.data with every field any callable reads; auth is request.auth.
BlankReq ==
    [auth |-> TRUE, userId |-> NoId, qrCode |-> NoId,
     userRefPath |-> NoPath, contactRefPath |-> NoPath,
     isResponder |-> Undef, isDependent |-> Undef,
     sendPings |-> Undef, receivePings |-> Undef,
     notifyOnCheckIn |-> Undef, notifyOnExpiry |-> Undef,
     nickname |-> Undef, notes |-> Undef,
     updateReciprocal |-> TRUE]

\* The ordered pairs of users the clients call the pair operations with.
CallPairs == {<<"u1", "u2">>, <<"u2", "u1">>, <<"u1", "u3">>, <<"u3", "u1">>}
Flags == {"true", "false"}

AddRequests ==
    {[BlankReq EXCEPT !.userId = pr[1], !.qrCode = QrLookup[pr[2]],
                      !.isResponder = r, !.isDependent = d] :
        pr \in CallPairs \cup {<<u, u>> : u \in UserIds}, r \in Flags, d \in Flags}

PairRequests ==
    {[BlankReq EXCEPT !.userRefPath = Path(pr[1]), !.contactRefPath = Path(pr[2])] :
        pr \in CallPairs}

RolesRequests ==
    {[q EXCEPT !.isResponder = r, !.isDependent = d] :
        q \in PairRequests, r \in Flags, d \in Flags}

\* The partial updates the clients send to updateContactRelation.
Patches ==
    {[BlankReq EXCEPT !.sendPings = "false"],
     [BlankReq EXCEPT !.isResponder = "true"],
     [BlankReq EXCEPT !.receivePings = "false", !.notifyOnExpiry = "true",
                      !.nickname = "nick", !.notes = "note"]}

RelationRequests ==
    {[pt EXCEPT !.userRefPath = q.userRefPath, !.contactRefPath = q.contactRefPath,
                !.updateReciprocal = b] :
        q \in PairRequests, pt \in Patches, b \in BOOLEAN}

AllPingsRequests == {[BlankReq EXCEPT !.userRefPath = Path(u)] : u \in UserIds}

(* --------------------------------------------------------- initial store *)
NoContacts == [p \in UserPaths |-> <<>>]

\* u1 and u2 related by the first release: u2 is u1's dependent.
LegacyStore ==
    [NoContacts EXCEPT
        ![Path("u1")] = <<LegacyEntry(Path("u2"), FALSE, TRUE)>>,
        ![Path("u2")] = <<LegacyEntry(Path("u1"), TRUE, FALSE)>>]

\* u1 related to u2 and to u3 by addContactRelation at instant 0:
\* u2 is u1's dependent, u3 is u1's responder.
HubStore ==
    [NoContacts EXCEPT
        ![Path("u1")] = <<NewEntry(Path("u2"), FALSE, TRUE, 0), NewEntry(Path("u3"), TRUE, FALSE, 0)>>,
        ![Path("u2")] = <<NewEntry(Path("u1"), TRUE, FALSE, 0)>>,
        ![Path("u3")] = <<NewEntry(Path("u1"), FALSE, TRUE, 0)>>]

InitialStores == {NoContacts, LegacyStore, HubStore}

(* --------------------------------------------------------- user profiles *)
\* The fields of users/{id} the reminder scanner reads besides fcmToken and
\* contacts.  checkInInterval is the stored number; lastCheckedIn is the
\* stored instant as toDate().getTime() gives it.  The two flags are optional.
UserProfile(name, checkInInterval, lastCheckedIn, notify2HoursBefore, notify30MinBefore) ==
    [name |-> name, checkInInterval |-> checkInInterval, lastCheckedIn |-> lastCheckedIn,
     notify2HoursBefore |-> notify2HoursBefore, notify30MinBefore |-> notify30MinBefore]

\* A profile as first written: a 24 hour interval, both reminders enabled.
DefaultProfile(id) == UserProfile("Test User " \o id, 24 * 60 * 60, 0, "true", "true")
DefaultProfiles == [p \in UserPaths |-> DefaultProfile(DocId(p))]

Tokens == [p \in UserPaths |-> IF p = Path("u3") THEN Undef ELSE "token-" \o DocId(p)]

NoBefore == [user |-> <<>>, contact |-> <<>>]
NoLast == [op |-> "none", kind |-> Ok, req |-> BlankReq, contactId |-> NoId,
           before |-> NoBefore]

Init ==
    /\ contacts \in InitialStores
    /\ fcmToken = Tokens
    /\ now = 1
    /\ last = NoLast
    /\ outbox = <<>>
    /\ procs = <<>>
    /\ profile = DefaultProfiles
    /\ history = <<>>

(* ------------------------------------------------------ sequential calls *)
\* userRef.update({ contacts: ... }) for each issued update, in order.
RECURSIVE ApplyWrites(_, _)
ApplyWrites(store, writes) ==
    IF writes = <<>> THEN store
    ELSE ApplyWrites([store EXCEPT ![Head(writes).doc] = Head(writes).contacts],
                     Tail(writes))

\* What the caller of a failed call supplied that identifies the call.
Identity(req) ==
    [BlankReq EXCEPT !.auth = req.auth, !.userId = req.userId, !.qrCode = req.qrCode,
                     !.userRefPath = req.userRefPath, !.contactRefPath = req.contactRefPath]

\* One invocation run alone: its reads, its writes (which all commit) and,
\* for pingDependent, its push message (sendOk: the send did not throw).
\* A call that writes takes one instant of the clock.
CanRun(out) == out.writes # <<>> => now <= MaxTime
StoreAfter(out) == ApplyWrites(contacts, out.writes)
ClockAfter(out) == IF out.writes # <<>> THEN now + 1 ELSE now
\* The two documents a request names: the caller's and the contact's.
UserRefOf(req) == IF req.userId # NoId THEN Path(req.userId) ELSE req.userRefPath
ContactRefOf(req) ==
    IF req.qrCode = NoId THEN req.contactRefPath
    ELSE IF QrQuery(req.qrCode) = {} THEN NoPath
    ELSE Path(CHOOSE u \in QrQuery(req.qrCode) : TRUE)
ListOf(store, ref) == IF ref \in DOMAIN store THEN store[ref] ELSE <<>>

\* The record of a finished call: a failed call is recorded by the documents
\* it named; `before` holds the two contact lists as the call found them.
LastAfter(op, req, out) ==
    [op |-> op, kind |-> out.kind,
     req |-> IF out.kind = Ok THEN req ELSE Identity(req),
     contactId |-> out.contactId,
     before |-> [user |-> ListOf(contacts, UserRefOf(req)),
                 contact |-> ListOf(contacts, ContactRefOf(req))]]
OutboxAfter(out, sendOk) == IF out.msg # NoMsg /\ sendOk THEN <<out.msg>> ELSE <<>>

AddContactRelation ==
    \E req \in AddRequests :
        LET out == AddContactRelationOutcome(contacts, now, req) IN
        /\ CanRun(out)
        /\ contacts' = StoreAfter(out)
        /\ now' = ClockAfter(out)
        /\ last' = LastAfter("addContactRelation", req, out)
        /\ outbox' = OutboxAfter(out, TRUE)
        /\ UNCHANGED <<fcmToken, procs, profile, history>>

UpdateContactRoles ==
    \E req \in RolesRequests :
        LET out == UpdateContactRolesOutcome(contacts, now, req) IN
        /\ CanRun(out)
        /\ contacts' = StoreAfter(out)
        /\ now' = ClockAfter(out)
        /\ last' = LastAfter("updateContactRoles", req, out)
        /\ outbox' = OutboxAfter(out, TRUE)
        /\ UNCHANGED <<fcmToken, procs, profile, history>>

UpdateContactRelation ==
    \E req \in RelationRequests :
        LET out == UpdateContactRelationOutcome(contacts, now, req) IN
        /\ CanRun(out)
        /\ contacts' = StoreAfter(out)
        /\ now' = ClockAfter(out)
        /\ last' = LastAfter("updateContactRelation", req, out)
        /\ outbox' = OutboxAfter(out, TRUE)
        /\ UNCHANGED <<fcmToken, procs, profile, history>>

DeleteContactRelation ==
    \E req \in PairRequests :
        LET out == DeleteContactRelationOutcome(contacts, now, req) IN
        /\ CanRun(out)
        /\ contacts' = StoreAfter(out)
        /\ now' = ClockAfter(out)
        /\ last' = LastAfter("deleteContactRelation", req, out)
        /\ outbox' = OutboxAfter(out, TRUE)
        /\ UNCHANGED <<fcmToken, procs, profile, history>>

DeleteContactRelationV1 ==
    \E req \in PairRequests :
        LET out == DeleteContactRelationV1Outcome(contacts, now, req) IN
        /\ CanRun(out)
        /\ contacts' = StoreAfter(out)
        /\ now' = ClockAfter(out)
        /\ last' = LastAfter("deleteContactRelationV1", req, out)
        /\ outbox' = OutboxAfter(out, TRUE)
        /\ UNCHANGED <<fcmToken, procs, profile, history>>

PingDependent ==
    \E req \in PairRequests, sendOk \in BOOLEAN :
        LET out == AbsorbSendError(PingDependentOutcome(contacts, fcmToken, now, req), sendOk) IN
        /\ CanRun(out)
        /\ contacts' = StoreAfter(out)
        /\ now' = ClockAfter(out)
        /\ last' = LastAfter("pingDependent", req, out)
        /\ outbox' = OutboxAfter(out, sendOk)
        /\ UNCHANGED <<fcmToken, procs, profile, history>>

RespondToPing ==
    \E req \in PairRequests :
        LET out == RespondToPingOutcome(contacts, fcmToken, now, req) IN
        /\ CanRun(out)
        /\ contacts' = StoreAfter(out)
        /\ now' = ClockAfter(out)
        /\ last' = LastAfter("respondToPing", req, out)
        /\ outbox' = OutboxAfter(out, TRUE)
        /\ UNCHANGED <<fcmToken, procs, profile, history>>

RespondToAllPings ==
    \E req \in AllPingsRequests :
        LET out == RespondToAllPingsOutcome(contacts, now, req) IN
        /\ CanRun(out)
        /\ contacts' = StoreAfter(out)
        /\ now' = ClockAfter(out)
        /\ last' = LastAfter("respondToAllPings", req, out)
        /\ outbox' = OutboxAfter(out, TRUE)
        /\ UNCHANGED <<fcmToken, procs, profile, history>>

ClearPing ==
    \E req \in PairRequests :
        LET out == ClearPingOutcome(contacts, fcmToken, now, req) IN
        /\ CanRun(out)
        /\ contacts' = StoreAfter(out)
        /\ now' = ClockAfter(out)
        /\ last' = LastAfter("clearPing", req, out)
        /\ outbox' = OutboxAfter(out, TRUE)
        /\ UNCHANGED <<fcmToken, procs, profile, history>>

Next ==
    \/ AddContactRelation
    \/ UpdateContactRoles
    \/ UpdateContactRelation
    \/ DeleteContactRelation
    \/ DeleteContactRelationV1
    \/ PingDependent
    \/ RespondToPing
    \/ RespondToAllPings
    \/ ClearPing

Spec == Init /\ [][Next]_vars

(* ------------------------------------- overlapping addContactRelation calls *)
\* Invocations of addContactRelation run concurrently.  Each one reads the
\* two user documents (the two gets of one Promise.all, in either order),
\* decides on what it read, and issues two independent updates (one
\* Promise.all, no transaction): each update commits or is rejected on its
\* own, in either order, and commits the whole contacts array the invocation
\* computed from its reads.
ConcRequests ==
    {[BlankReq EXCEPT !.userId = pr[1], !.qrCode = QrLookup[pr[2]],
                      !.isResponder = "true", !.isDependent = "false"] :
        pr \in {<<"u1", "u2">>, <<"u2", "u1">>, <<"u1", "u3">>}}

NoView == [d \in {} |-> <<>>]
Pending == "pending"
Committed == "committed"
Rejected == "rejected"

InitConc ==
    /\ contacts = NoContacts
    /\ fcmToken = Tokens
    /\ now = 1
    /\ last = NoLast
    /\ outbox = <<>>
    /\ procs = <<>>
    /\ profile = DefaultProfiles
    /\ history = <<>>

\* The documents an invocation has read so far, with one more.
ViewWith(view, ref) ==
    [d \in DOMAIN view \cup {ref} |-> IF d = ref THEN contacts[ref] ELSE view[d]]
Issue(writes) == [i \in 1..Len(writes) |->
                    [doc |-> writes[i].doc, contacts |-> writes[i].contacts,
                     status |-> Pending]]
Settled(p) == \A i \in 1..Len(p.writes) : p.writes[i].status # Pending
AllCommitted(p) == \A i \in 1..Len(p.writes) : p.writes[i].status = Committed

\* A client calls addContactRelation: the invocation passes its argument
\* checks and the qr_lookup query and is about to read the two documents.
ConcStart ==
    \E req \in ConcRequests :
        /\ Len(procs) < MaxProcs
        /\ procs' = Append(procs, [req |-> req, pc |-> "read", view |-> NoView,
                                   kind |-> Ok, writes |-> <<>>])
        /\ UNCHANGED <<contacts, fcmToken, now, last, outbox, profile, history>>

\* userRef.get() resolves.
ConcReadUser ==
    \E p \in 1..Len(procs) :
        /\ procs[p].pc = "read"
        /\ UserRefOf(procs[p].req) \notin DOMAIN procs[p].view
        /\ procs' = [procs EXCEPT ![p].view = ViewWith(@, UserRefOf(procs[p].req))]
        /\ UNCHANGED <<contacts, fcmToken, now, last, outbox, profile, history>>

\* contactRef.get() resolves.
ConcReadContact ==
    \E p \in 1..Len(procs) :
        /\ procs[p].pc = "read"
        /\ ContactRefOf(procs[p].req) \notin DOMAIN procs[p].view
        /\ procs' = [procs EXCEPT ![p].view = ViewWith(@, ContactRefOf(procs[p].req))]
        /\ UNCHANGED <<contacts, fcmToken, now, last, outbox, profile, history>>

\* Both gets have resolved: the invocation runs its checks on what it read
\* and either throws or issues its two updates.
ConcDecide ==
    \E p \in 1..Len(procs) :
        LET req == procs[p].req
            out == AddContactRelationOutcome(procs[p].view, now, req)
        IN
        /\ procs[p].pc = "read"
        /\ {UserRefOf(req), ContactRefOf(req)} \subseteq DOMAIN procs[p].view
        /\ procs' = [procs EXCEPT ![p].pc = "write", ![p].kind = out.kind,
                                  ![p].writes = Issue(out.writes)]
        /\ now' = IF out.writes # <<>> THEN now + 1 ELSE now
        /\ UNCHANGED <<contacts, fcmToken, last, outbox, profile, history>>

\* One of the issued updates commits: the document's contacts array becomes
\* the array the invocation computed.
ConcCommit ==
    \E p \in 1..Len(procs) : \E i \in 1..Len(procs[p].writes) :
        /\ procs[p].pc = "write"
        /\ procs[p].writes[i].status = Pending
        /\ contacts' = [contacts EXCEPT ![procs[p].writes[i].doc] = procs[p].writes[i].contacts]
        /\ procs' = [procs EXCEPT ![p].writes[i].status = Committed]
        /\ UNCHANGED <<fcmToken, now, last, outbox, profile, history>>

\* One of the issued updates is rejected; the other one is not recalled.
ConcFail ==
    \E p \in 1..Len(procs) : \E i \in 1..Len(procs[p].writes) :
        /\ procs[p].pc = "write"
        /\ procs[p].writes[i].status = Pending
        /\ procs' = [procs EXCEPT ![p].writes[i].status = Rejected]
        /\ UNCHANGED <<contacts, fcmToken, now, last, outbox, profile, history>>

\* The invocation answers its caller once its updates have settled: with
\* the result, or with the error its catch block rethrows.
ConcReturn ==
    \E p \in 1..Len(procs) :
        LET req == procs[p].req
            kind == IF AllCommitted(procs[p]) THEN procs[p].kind ELSE AddRethrow(Internal)
        IN
        /\ procs[p].pc = "write"
        /\ Settled(procs[p])
        /\ last' = [op |-> "addContactRelation", kind |-> kind,
                    req |-> IF kind = Ok THEN req ELSE Identity(req),
                    contactId |-> IF kind = Ok THEN DocId(ContactRefOf(req)) ELSE NoId,
                    before |-> [user |-> procs[p].view[UserRefOf(req)],
                                contact |-> procs[p].view[ContactRefOf(req)]]]
        /\ procs' = [procs EXCEPT ![p] = [req |-> Identity(req), pc |-> "done",
                                          view |-> NoView, kind |-> kind,
                                          writes |-> <<>>]]
        /\ UNCHANGED <<contacts, fcmToken, now, outbox, profile, history>>

NextConc ==
    \/ ConcStart
    \/ ConcReadUser
    \/ ConcReadContact
    \/ ConcDecide
    \/ ConcCommit
    \/ ConcFail
    \/ ConcReturn

SpecConc == InitConc /\ [][NextConc]_vars

(* ------------------------------------------- after a half-applied legacy add *)
\* The first release's addContactRelation issued its two updates in one
\* Promise.all as well: u1's update committed and u2's was rejected, so u1
\* lists u2 (in the `reference` form) and u2 does not list u1.
HalfLegacyStore ==
    [NoContacts EXCEPT ![Path("u1")] = <<LegacyEntry(Path("u2"), FALSE, TRUE)>>]

InitHalf ==
    /\ contacts = HalfLegacyStore
    /\ fcmToken = Tokens
    /\ now = 1
    /\ last = NoLast
    /\ outbox = <<>>
    /\ procs = <<>>
    /\ profile = DefaultProfiles
    /\ history = <<>>

SpecHalf == InitHalf /\ [][Next]_vars

(* ------------------------------------------------ calls that must be refused *)
\* The callables invoked with requests their guards are there to refuse:
\* no authenticated caller, a missing argument, a user document that does not
\* exist, or two users (u2 and u3) no seeded store relates.
Unauth(reqs) == {[r EXCEPT !.auth = FALSE] : r \in reqs}
GuardPairs ==
    {<<Path("u2"), Path("u3")>>, <<Path("u3"), Path("u2")>>,
     <<Path("u1"), Path(GhostId)>>, <<Path(GhostId), Path("u1")>>,
     <<Path("u1"), NoPath>>, <<NoPath, Path("u1")>>}
GuardPairRequests ==
    LET named == {[BlankReq EXCEPT !.userRefPath = pr[1], !.contactRefPath = pr[2]] :
                    pr \in GuardPairs}
    IN  named \cup Unauth(named) \cup Unauth(PairRequests)
GuardRolesRequests ==
    LET named == {[q EXCEPT !.isResponder = f[1], !.isDependent = f[2]] :
                    q \in GuardPairRequests,
                    f \in {<<"true", "false">>, <<"true", Undef>>, <<Undef, "false">>}}
    IN  named \cup Unauth(RolesRequests)
GuardRelationRequests ==
    {[q EXCEPT !.sendPings = "false"] : q \in GuardPairRequests} \cup Unauth(RelationRequests)
GuardAllPingsRequests ==
    LET named == {[BlankReq EXCEPT !.userRefPath = p] : p \in {Path(GhostId), NoPath}}
    IN  named \cup Unauth(named) \cup Unauth(AllPingsRequests)
GuardAddRequests ==
    LET named == {[BlankReq EXCEPT !.userId = a[1], !.qrCode = a[2],
                                   !.isResponder = "true", !.isDependent = "false"] :
                    a \in {<<"u1", QrLookup[GhostId]>>, <<GhostId, QrLookup["u1"]>>,
                           <<"u1", UnknownQr>>, <<NoId, QrLookup["u1"]>>, <<"u1", NoId>>}}
    IN  named \cup Unauth(named) \cup Unauth(AddRequests)

\* The record of a finished call, with the request as it was sent.
GuardLastAfter(op, req, out) == [LastAfter(op, req, out) EXCEPT !.req = req]

GuardAddContactRelation ==
    \E req \in GuardAddRequests :
        LET out == AddContactRelationOutcome(contacts, now, req) IN
        /\ CanRun(out)
        /\ contacts' = StoreAfter(out)
        /\ now' = ClockAfter(out)
        /\ last' = GuardLastAfter("addContactRelation", req, out)
        /\ outbox' = OutboxAfter(out, TRUE)
        /\ UNCHANGED <<fcmToken, procs, profile, history>>

GuardUpdateContactRoles ==
    \E req \in GuardRolesRequests :
        LET out == UpdateContactRolesOutcome(contacts, now, req) IN
        /\ CanRun(out)
        /\ contacts' = StoreAfter(out)
        /\ now' = ClockAfter(out)
        /\ last' = GuardLastAfter("updateContactRoles", req, out)
        /\ outbox' = OutboxAfter(out, TRUE)
        /\ UNCHANGED <<fcmToken, procs, profile, history>>

GuardUpdateContactRelation ==
    \E req \in GuardRelationRequests :
        LET out == UpdateContactRelationOutcome(contacts, now, req) IN
        /\ CanRun(out)
        /\ contacts' = StoreAfter(out)
        /\ now' = ClockAfter(out)
        /\ last' = GuardLastAfter("updateContactRelation", req, out)
        /\ outbox' = OutboxAfter(out, TRUE)
        /\ UNCHANGED <<fcmToken, procs, profile, history>>

GuardDeleteContactRelation ==
    \E req \in GuardPairRequests :
        LET out == DeleteContactRelationOutcome(contacts, now, req) IN
        /\ CanRun(out)
        /\ contacts' = StoreAfter(out)
        /\ now' = ClockAfter(out)
        /\ last' = GuardLastAfter("deleteContactRelation", req, out)
        /\ outbox' = OutboxAfter(out, TRUE)
        /\ UNCHANGED <<fcmToken, procs, profile, history>>

GuardDeleteContactRelationV1 ==
    \E req \in GuardPairRequests :
        LET out == DeleteContactRelationV1Outcome(contacts, now, req) IN
        /\ CanRun(out)
        /\ contacts' = StoreAfter(out)
        /\ now' = ClockAfter(out)
        /\ last' = GuardLastAfter("deleteContactRelationV1", req, out)
        /\ outbox' = OutboxAfter(out, TRUE)
        /\ UNCHANGED <<fcmToken, procs, profile, history>>

GuardPingDependent ==
    \E req \in GuardPairRequests, sendOk \in BOOLEAN :
        LET out == AbsorbSendError(PingDependentOutcome(contacts, fcmToken, now, req), sendOk) IN
        /\ CanRun(out)
        /\ contacts' = StoreAfter(out)
        /\ now' = ClockAfter(out)
        /\ last' = GuardLastAfter("pingDependent", req, out)
        /\ outbox' = OutboxAfter(out, sendOk)
        /\ UNCHANGED <<fcmToken, procs, profile, history>>

GuardRespondToPing ==
    \E req \in GuardPairRequests :
        LET out == RespondToPingOutcome(contacts, fcmToken, now, req) IN
        /\ CanRun(out)
        /\ contacts' = StoreAfter(out)
        /\ now' = ClockAfter(out)
        /\ last' = GuardLastAfter("respondToPing", req, out)
        /\ outbox' = OutboxAfter(out, TRUE)
        /\ UNCHANGED <<fcmToken, procs, profile, history>>

GuardRespondToAllPings ==
    \E req \in GuardAllPingsRequests :
        LET out == RespondToAllPingsOutcome(contacts, now, req) IN
        /\ CanRun(out)
        /\ contacts' = StoreAfter(out)
        /\ now' = ClockAfter(out)
        /\ last' = GuardLastAfter("respondToAllPings", req, out)
        /\ outbox' = OutboxAfter(out, TRUE)
        /\ UNCHANGED <<fcmToken, procs, profile, history>>

GuardClearPing ==
    \E req \in GuardPairRequests :
        LET out == ClearPingOutcome(contacts, fcmToken, now, req) IN
        /\ CanRun(out)
        /\ contacts' = StoreAfter(out)
        /\ now' = ClockAfter(out)
        /\ last' = GuardLastAfter("clearPing", req, out)
        /\ outbox' = OutboxAfter(out, TRUE)
        /\ UNCHANGED <<fcmToken, procs, profile, history>>

NextGuard ==
    \/ GuardAddContactRelation
    \/ GuardUpdateContactRoles
    \/ GuardUpdateContactRelation
    \/ GuardDeleteContactRelation
    \/ GuardDeleteContactRelationV1
    \/ GuardPingDependent
    \/ GuardRespondToPing
    \/ GuardRespondToAllPings
    \/ GuardClearPing

SpecGuard == Init /\ [][NextGuard]_vars

(* ------------------------------------------------------ reminder scanner *)
\* Instants are milliseconds counted from an origin that precedes every
\* check-in: only differences of instants enter the scanner's arithmetic.
TwoHours == 2 * 60 * 60 * 1000
\* 1.9 * 60 * 60 * 1000
TwoHoursLow == 19 * 6 * 60 * 1000
HalfHour == 30 * 60 * 1000
HalfHourLow == 29 * 60 * 1000
\* onSchedule("every 15 minutes")
ScanPeriod == 15 * 60 * 1000
\* Date.now() at the first instant of a behaviour of SpecScan.
ScanStart == 3 * TwoHours

\* lastCheckedIn + user.checkInInterval : the stored number is added as it is
Expiry(user) == user.lastCheckedIn + user.checkInInterval
\* Faulty variant of TimeLeft: the time since the last check-in.
TimeSince(user, t) == t - user.lastCheckedIn
\* expiry - now
TimeLeft(user, t) == Expiry(user) - t

\* Faulty variant of InEarlyWindow: the upper end of the window is included.
InEarlyWindowClosed(timeLeft) == timeLeft <= TwoHours /\ timeLeft > TwoHoursLow
\* timeLeft < 2 * 60 * 60 * 1000 && timeLeft > 1.9 * 60 * 60 * 1000
InEarlyWindow(timeLeft) == timeLeft < TwoHours /\ timeLeft > TwoHoursLow
\* Faulty variant of InLateWindow: the window reaches down to the deadline.
InLateWindowToDeadline(timeLeft) == timeLeft < HalfHour /\ timeLeft > 0
\* timeLeft < 30 * 60 * 1000 && timeLeft > 29 * 60 * 1000
InLateWindow(timeLeft) == timeLeft < HalfHour /\ timeLeft > HalfHourLow

EarlyBody == "Your check-in expires in 2 hours"
LateBody == "Your check-in expires in 30 minutes"
ExpiredBody(name) == name \o "'s check-in has expired."
Notification(token, title, body) == [token |-> token, title |-> title, body |-> body]

\* Faulty variant of AlertRef: the referencePath field is not consulted.
AlertRefHandleOnly(contact) == ReferenceDotPath(contact)
\* contact.reference, else db.doc(contact.referencePath), else no reference
AlertRef(contact) == OrElse(ReferenceDotPath(contact), ReferencePathField(contact))
\* (await contactRef.get()).data()?.fcmToken
AlertToken(tokens, contactRef) ==
    IF contactRef \in DOMAIN tokens THEN tokens[contactRef] ELSE Undef

\* The loop over user.contacts of an expired user: one alert per responder
\* entry whose reference resolves to a document with a token, in list order.
RECURSIVE ResponderAlerts(_, _, _)
ResponderAlerts(list, name, tokens) ==
    IF list = <<>> THEN <<>>
    ELSE LET contact == Head(list)
             contactRef == AlertRef(contact)
             contactToken == AlertToken(tokens, contactRef)
             rest == ResponderAlerts(Tail(list), name, tokens)
         IN  IF ~contact.isResponder THEN rest
             ELSE IF contactRef = NoPath THEN rest
             ELSE IF contactToken = Undef THEN rest
             ELSE <<Notification(contactToken, "Emergency Alert", ExpiredBody(name))>> \o rest

\* Faulty variant of HasExpired: true for one scan period after the deadline.
HasJustExpired(user, t) == t > Expiry(user) /\ t <= Expiry(user) + ScanPeriod
\* now > expiry
HasExpired(user, t) == t > Expiry(user)

\* Faulty variant of NoToken: no user is skipped.
NoTokenNever(token) == FALSE
\* !token
NoToken(token) == token = Undef

\* The body of the loop over snapshot.docs for one user document.
UserMessages(user, token, list, tokens, t) ==
    IF NoToken(token) THEN <<>>
    ELSE (IF FromOpt(user.notify2HoursBefore) /\ InEarlyWindow(TimeLeft(user, t))
          THEN <<Notification(token, "Check-in Reminder", EarlyBody)>> ELSE <<>>)
         \o
         (IF FromOpt(user.notify30MinBefore) /\ InLateWindow(TimeLeft(user, t))
          THEN <<Notification(token, "Check-in Reminder", LateBody)>> ELSE <<>>)
         \o
         (IF HasExpired(user, t) THEN ResponderAlerts(list, user.name, tokens) ELSE <<>>)

\* db.collection("users").get() : the documents in document id order
SnapshotDocs == <<Path("u1"), Path("u2"), Path("u3")>>

\* Faulty variant of ScanMessages: the loop is left after the first user
\* for whom something was sent.
RECURSIVE ScanMessagesFirstHit(_, _, _, _, _)
ScanMessagesFirstHit(docs, profiles, store, tokens, t) ==
    IF docs = <<>> THEN <<>>
    ELSE LET sent == UserMessages(profiles[Head(docs)], tokens[Head(docs)],
                                  store[Head(docs)], tokens, t)
         IN IF sent # <<>> THEN sent
            ELSE ScanMessagesFirstHit(Tail(docs), profiles, store, tokens, t)

\* handleNotifications(): every message it sends, in sending order.
RECURSIVE ScanMessages(_, _, _, _, _)
ScanMessages(docs, profiles, store, tokens, t) ==
    IF docs = <<>> THEN <<>>
    ELSE UserMessages(profiles[Head(docs)], tokens[Head(docs)], store[Head(docs)], tokens, t)
         \o ScanMessages(Tail(docs), profiles, store, tokens, t)

\* u1 and u2 added each as the other's responder and dependent at instant 0.
MutualStore ==
    [NoContacts EXCEPT
        ![Path("u1")] = <<NewEntry(Path("u2"), TRUE, TRUE, 0)>>,
        ![Path("u2")] = <<NewEntry(Path("u1"), TRUE, TRUE, 0)>>]
ScanStores == {LegacyStore, HubStore, MutualStore}

\* Stored intervals: 30 minutes, 1 hour and 2 hours counted in seconds, and
\* the numbers 1 800 000 and 7 200 000.
Intervals == {30 * 60, 60 * 60, 2 * 60 * 60, HalfHour, TwoHours}
\* Milliseconds between the last check-in and the first instant.
Agos == {0, 30 * 1000, 60 * 1000, 3 * 60 * 1000, 5 * 60 * 1000, 6 * 60 * 1000,
         30 * 60 * 1000, 115 * 60 * 1000}
ScannedProfiles ==
    {UserProfile("User u1", i, ScanStart - a, e, l) :
        i \in Intervals, a \in Agos, e \in OptBool, l \in OptBool}
\* u2: expired two hours ago, or three minutes into the number 7 200 000,
\* or as first written and checked in at the first instant.
OtherProfiles ==
    {UserProfile("User u2", 60 * 60, ScanStart - TwoHours, "true", "true"),
     UserProfile("User u2", TwoHours, ScanStart - 3 * 60 * 1000, "true", Undef),
     [DefaultProfile("u2") EXCEPT !.lastCheckedIn = ScanStart]}
ScanProfiles ==
    {[DefaultProfiles EXCEPT ![Path("u1")] = a, ![Path("u2")] = b] :
        a \in ScannedProfiles, b \in OtherProfiles}

\* Every user but u3 holds a token, or u2 alone does.
ScanTokens == {Tokens, [Tokens EXCEPT ![Path("u1")] = Undef]}

InitScan ==
    /\ contacts \in ScanStores
    /\ fcmToken \in ScanTokens
    /\ now = ScanStart
    /\ last = NoLast
    /\ outbox = <<>>
    /\ procs = <<>>
    /\ profile \in ScanProfiles
    /\ history = <<>>

ScanLast == [NoLast EXCEPT !.op = "handleNotifications"]

\* handleNotifications() called at the current instant.
HandleNotifications ==
    /\ outbox' = ScanMessages(SnapshotDocs, profile, contacts, fcmToken, now)
    /\ last' = ScanLast
    /\ UNCHANGED <<contacts, fcmToken, now, procs, profile, history>>

\* The schedule fires fifteen minutes later and runs handleNotifications().
SendCheckInReminders ==
    /\ now + ScanPeriod <= ScanStart + MaxScans * ScanPeriod
    /\ now' = now + ScanPeriod
    /\ outbox' = ScanMessages(SnapshotDocs, profile, contacts, fcmToken, now')
    /\ last' = ScanLast
    /\ UNCHANGED <<contacts, fcmToken, procs, profile, history>>

NextScan ==
    \/ HandleNotifications
    \/ SendCheckInReminders

SpecScan == InitScan /\ [][NextScan]_vars

(* ---------------------------------------------------- check-in cycles *)
\* Stored intervals: 1 hour counted in seconds, and the numbers for 20, 45,
\* 50, 135 and 140 minutes counted in milliseconds.
CycleIntervals ==
    {60 * 60, 20 * 60 * 1000, HalfHour + ScanPeriod, TwoHours + ScanPeriod,
     50 * 60 * 1000, 140 * 60 * 1000}
CycleAgos == {0, 30 * 1000, 3 * 60 * 1000}
CycleProfiles ==
    {[DefaultProfiles EXCEPT
         ![Path("u1")] = UserProfile("User u1", i, ScanStart - a, "true", "true"),
         ![Path("u2")] = b] :
        i \in CycleIntervals, a \in CycleAgos, b \in OtherProfiles}

InitCycle ==
    /\ contacts \in ScanStores
    /\ fcmToken = Tokens
    /\ now = ScanStart
    /\ last = NoLast
    /\ outbox = <<>>
    /\ procs = <<>>
    /\ profile \in CycleProfiles
    /\ history = <<>>

\* The schedule fires fifteen minutes after the previous instant and runs
\* handleNotifications(); the scan is entered in the history.
ScheduledScan ==
    /\ Len(history) < MaxCycleScans
    /\ now' = now + ScanPeriod
    /\ outbox' = ScanMessages(SnapshotDocs, profile, contacts, fcmToken, now')
    /\ last' = ScanLast
    /\ history' = Append(history, [at |-> now', sent |-> outbox'])
    /\ UNCHANGED <<contacts, fcmToken, procs, profile>>

\* A user with a token checks in: the client sets lastCheckedIn of its own
\* document to the current instant.
CheckIn ==
    \E p \in UserPaths :
        /\ fcmToken[p] # Undef
        /\ profile[p].lastCheckedIn < now
        /\ profile' = [profile EXCEPT ![p].lastCheckedIn = now]
        /\ UNCHANGED <<contacts, fcmToken, now, last, outbox, procs, history>>

NextCycle ==
    \/ ScheduledScan
    \/ CheckIn

SpecCycle == InitCycle /\ [][NextCycle]_vars

(* ------------------------------------------------------- rejected sends *)
\* The scheduled function's promise is rejected: an error left the scan.
Unhandled == "unhandled"

\* await messaging.send(...) outside any try block: the messages sent before
\* the first send that the service refuses; nothing after it is attempted.
RECURSIVE SentBefore(_, _)
SentBefore(msgs, refused) ==
    IF msgs = <<>> THEN <<>>
    ELSE IF Head(msgs).token \in refused THEN <<>>
    ELSE <<Head(msgs)>> \o SentBefore(Tail(msgs), refused)
\* Whether some send of the scan is refused.
Refuses(msgs, refused) == \E i \in 1..Len(msgs) : msgs[i].token \in refused

\* handleNotifications() when the service refuses every send to a token of
\* `refused`: the messages sent and how the call ends.
ScanRun(docs, profiles, store, tokens, t, refused) ==
    LET msgs == ScanMessages(docs, profiles, store, tokens, t) IN
    [sent |-> SentBefore(msgs, refused),
     kind |-> IF Refuses(msgs, refused) THEN Unhandled ELSE Ok]

\* Faulty variant of ScannedStore: the scan stamps every entry it reads.
ScannedStoreStamped(store, t) ==
    [p \in DOMAIN store |->
        [i \in 1..Len(store[p]) |-> [store[p][i] EXCEPT !.lastUpdated = t]]]
\* The contact lists after a scan at instant t: handleNotifications() calls
\* get() on the collection and on the responders' documents and issues no
\* set, update or delete.
ScannedStore(store, t) == store

\* The tokens the service may refuse (unregistered or expired tokens).
RefusedSets == SUBSET {"token-u1", "token-u2"}

\* u1: 3 minutes into the number 7 200 000, 30 seconds into 1 800 000, 30
\* minutes into 3 600, or just checked in for 135 minutes.
FaultCases ==
    {<<TwoHours, 3 * 60 * 1000>>, <<HalfHour, 30 * 1000>>,
     <<60 * 60, 30 * 60 * 1000>>, <<TwoHours + ScanPeriod, 0>>}
FaultProfiles ==
    {[DefaultProfiles EXCEPT
         ![Path("u1")] = UserProfile("User u1", c[1], ScanStart - c[2], e, "true"),
         ![Path("u2")] = b] :
        c \in FaultCases, e \in OptBool, b \in OtherProfiles}

InitFault ==
    /\ contacts \in ScanStores
    /\ fcmToken \in ScanTokens
    /\ now = ScanStart
    /\ last = NoLast
    /\ outbox = <<>>
    /\ procs = <<>>
    /\ profile \in FaultProfiles
    /\ history = <<>>

\* The record of a scan: how it ended and which tokens the service refused.
FaultLast(run, refused) ==
    [op |-> "handleNotifications", kind |-> run.kind, req |-> BlankReq,
     contactId |-> NoId, before |-> NoBefore, refused |-> refused]

\* handleNotifications() called at the current instant while the service
\* refuses the tokens of `refused`.
HandleNotificationsRefused ==
    \E refused \in RefusedSets :
        LET run == ScanRun(SnapshotDocs, profile, contacts, fcmToken, now, refused) IN
        /\ outbox' = run.sent
        /\ last' = FaultLast(run, refused)
        /\ contacts' = ScannedStore(contacts, now)
        /\ UNCHANGED <<fcmToken, now, procs, profile, history>>

\* The schedule fires fifteen minutes later, under the same conditions.
SendCheckInRemindersRefused ==
    \E refused \in RefusedSets :
        LET run == ScanRun(SnapshotDocs, profile, contacts, fcmToken, now + ScanPeriod, refused) IN
        /\ now + ScanPeriod <= ScanStart + MaxScans * ScanPeriod
        /\ now' = now + ScanPeriod
        /\ outbox' = run.sent
        /\ last' = FaultLast(run, refused)
        /\ contacts' = ScannedStore(contacts, now')
        /\ UNCHANGED <<fcmToken, procs, profile, history>>

NextFault ==
    \/ HandleNotificationsRefused
    \/ SendCheckInRemindersRefused

SpecFault == InitFault /\ [][NextFault]_vars

(* --------------------------------------- a half-applied call and its retry *)
\* Each pair operation issues its two updates in one Promise.all with no
\* transaction: one update may commit while the other is rejected, and the
\* caller gets the error of the catch block.  The caller then invokes the
\* same callable with the same request, and this time both updates commit.
\* u1 has pinged its dependent u2 at instant 1.
PingedStore ==
    [HubStore EXCEPT
        ![Path("u1")][1] = PingUserContact(@, 1),
        ![Path("u2")][1] = PingContactUser(@, 1)]

\* The record of a call: `failed` is the position of the rejected update.
RetryLast(op, kind, req, failed, phase) ==
    [op |-> op, kind |-> kind, req |-> req, contactId |-> NoId,
     before |-> NoBefore, failed |-> failed, phase |-> phase]

InitRetry ==
    /\ contacts \in InitialStores \cup {PingedStore}
    /\ fcmToken = Tokens
    /\ now = 2
    /\ last = RetryLast("none", Ok, BlankReq, 0, "none")
    /\ outbox = <<>>
    /\ procs = <<>>
    /\ profile = DefaultProfiles
    /\ history = <<>>

\* The issued updates with the one at position `failed` rejected: the
\* others commit.
ApplyAllBut(store, writes, failed) ==
    ApplyWrites(store, [j \in 1..(Len(writes) - 1) |->
                            writes[IF j < failed THEN j ELSE j + 1]])

\* addContactRelation: one of the two updates of the Promise.all is rejected after the
\* other has committed; the catch block answers with an error.
AddContactRelationPartly ==
    \E req \in AddRequests : \E failed \in 1..2 :
        LET out == AddContactRelationOutcome(contacts, now, req) IN
        /\ last.phase = "none"
        /\ out.kind = Ok
        /\ contacts' = ApplyAllBut(contacts, out.writes, failed)
        /\ now' = now + 1
        /\ last' = RetryLast("addContactRelation", AddRethrow(Internal), req, failed, "partial")
        /\ outbox' = <<>>
        /\ UNCHANGED <<fcmToken, procs, profile, history>>

\* addContactRelation invoked again with the request of the half-applied call; every
\* update it issues commits.
AddContactRelationAgain ==
    LET out == AddContactRelationOutcome(contacts, now, last.req) IN
    /\ last.phase = "partial"
    /\ last.op = "addContactRelation"
    /\ contacts' = ApplyWrites(contacts, out.writes)
    /\ now' = now + 1
    /\ last' = RetryLast("addContactRelation", out.kind, last.req, last.failed, "retried")
    /\ outbox' = OutboxAfter(out, TRUE)
    /\ UNCHANGED <<fcmToken, procs, profile, history>>

\* updateContactRoles: one of the two updates of the Promise.all is rejected after the
\* other has committed; the catch block answers with an error.
UpdateContactRolesPartly ==
    \E req \in RolesRequests : \E failed \in 1..2 :
        LET out == UpdateContactRolesOutcome(contacts, now, req) IN
        /\ last.phase = "none"
        /\ out.kind = Ok
        /\ contacts' = ApplyAllBut(contacts, out.writes, failed)
        /\ now' = now + 1
        /\ last' = RetryLast("updateContactRoles", RethrowInternal(Internal), req, failed, "partial")
        /\ outbox' = <<>>
        /\ UNCHANGED <<fcmToken, procs, profile, history>>

\* updateContactRoles invoked again with the request of the half-applied call; every
\* update it issues commits.
UpdateContactRolesAgain ==
    LET out == UpdateContactRolesOutcome(contacts, now, last.req) IN
    /\ last.phase = "partial"
    /\ last.op = "updateContactRoles"
    /\ contacts' = ApplyWrites(contacts, out.writes)
    /\ now' = now + 1
    /\ last' = RetryLast("updateContactRoles", out.kind, last.req, last.failed, "retried")
    /\ outbox' = OutboxAfter(out, TRUE)
    /\ UNCHANGED <<fcmToken, procs, profile, history>>

\* deleteContactRelation: one of the two updates of the Promise.all is rejected after the
\* other has committed; the catch block answers with an error.
DeleteContactRelationPartly ==
    \E req \in PairRequests : \E failed \in 1..2 :
        LET out == DeleteContactRelationOutcome(contacts, now, req) IN
        /\ last.phase = "none"
        /\ out.kind = Ok
        /\ contacts' = ApplyAllBut(contacts, out.writes, failed)
        /\ now' = now + 1
        /\ last' = RetryLast("deleteContactRelation", RethrowInternal(Internal), req, failed, "partial")
        /\ outbox' = <<>>
        /\ UNCHANGED <<fcmToken, procs, profile, history>>

\* deleteContactRelation invoked again with the request of the half-applied call; every
\* update it issues commits.
DeleteContactRelationAgain ==
    LET out == DeleteContactRelationOutcome(contacts, now, last.req) IN
    /\ last.phase = "partial"
    /\ last.op = "deleteContactRelation"
    /\ contacts' = ApplyWrites(contacts, out.writes)
    /\ now' = now + 1
    /\ last' = RetryLast("deleteContactRelation", out.kind, last.req, last.failed, "retried")
    /\ outbox' = OutboxAfter(out, TRUE)
    /\ UNCHANGED <<fcmToken, procs, profile, history>>

\* pingDependent: one of the two updates of the Promise.all is rejected after the
\* other has committed; the catch block answers with an error.
PingDependentPartly ==
    \E req \in PairRequests : \E failed \in 1..2 :
        LET out == PingDependentOutcome(contacts, fcmToken, now, req) IN
        /\ last.phase = "none"
        /\ out.kind = Ok
        /\ contacts' = ApplyAllBut(contacts, out.writes, failed)
        /\ now' = now + 1
        /\ last' = RetryLast("pingDependent", RethrowInternal(Internal), req, failed, "partial")
        /\ outbox' = <<>>
        /\ UNCHANGED <<fcmToken, procs, profile, history>>

\* pingDependent invoked again with the request of the half-applied call; every
\* update it issues commits.
PingDependentAgain ==
    LET out == PingDependentOutcome(contacts, fcmToken, now, last.req) IN
    /\ last.phase = "partial"
    /\ last.op = "pingDependent"
    /\ contacts' = ApplyWrites(contacts, out.writes)
    /\ now' = now + 1
    /\ last' = RetryLast("pingDependent", out.kind, last.req, last.failed, "retried")
    /\ outbox' = OutboxAfter(out, TRUE)
    /\ UNCHANGED <<fcmToken, procs, profile, history>>

\* respondToPing: one of the two updates of the Promise.all is rejected after the
\* other has committed; the catch block answers with an error.
RespondToPingPartly ==
    \E req \in PairRequests : \E failed \in 1..2 :
        LET out == RespondToPingOutcome(contacts, fcmToken, now, req) IN
        /\ last.phase = "none"
        /\ out.kind = Ok
        /\ contacts' = ApplyAllBut(contacts, out.writes, failed)
        /\ now' = now + 1
        /\ last' = RetryLast("respondToPing", RethrowInternal(Internal), req, failed, "partial")
        /\ outbox' = <<>>
        /\ UNCHANGED <<fcmToken, procs, profile, history>>

\* respondToPing invoked again with the request of the half-applied call; every
\* update it issues commits.
RespondToPingAgain ==
    LET out == RespondToPingOutcome(contacts, fcmToken, now, last.req) IN
    /\ last.phase = "partial"
    /\ last.op = "respondToPing"
    /\ contacts' = ApplyWrites(contacts, out.writes)
    /\ now' = now + 1
    /\ last' = RetryLast("respondToPing", out.kind, last.req, last.failed, "retried")
    /\ outbox' = OutboxAfter(out, TRUE)
    /\ UNCHANGED <<fcmToken, procs, profile, history>>

\* clearPing: one of the two updates of the Promise.all is rejected after the
\* other has committed; the catch block answers with an error.
ClearPingPartly ==
    \E req \in PairRequests : \E failed \in 1..2 :
        LET out == ClearPingOutcome(contacts, fcmToken, now, req) IN
        /\ last.phase = "none"
        /\ out.kind = Ok
        /\ contacts' = ApplyAllBut(contacts, out.writes, failed)
        /\ now' = now + 1
        /\ last' = RetryLast("clearPing", RethrowInternal(Internal), req, failed, "partial")
        /\ outbox' = <<>>
        /\ UNCHANGED <<fcmToken, procs, profile, history>>

\* clearPing invoked again with the request of the half-applied call; every
\* update it issues commits.
ClearPingAgain ==
    LET out == ClearPingOutcome(contacts, fcmToken, now, last.req) IN
    /\ last.phase = "partial"
    /\ last.op = "clearPing"
    /\ contacts' = ApplyWrites(contacts, out.writes)
    /\ now' = now + 1
    /\ last' = RetryLast("clearPing", out.kind, last.req, last.failed, "retried")
    /\ outbox' = OutboxAfter(out, TRUE)
    /\ UNCHANGED <<fcmToken, procs, profile, history>>

NextRetry ==
    \/ AddContactRelationPartly
    \/ AddContactRelationAgain
    \/ UpdateContactRolesPartly
    \/ UpdateContactRolesAgain
    \/ DeleteContactRelationPartly
    \/ DeleteContactRelationAgain
    \/ PingDependentPartly
    \/ PingDependentAgain
    \/ RespondToPingPartly
    \/ RespondToPingAgain
    \/ ClearPingPartly
    \/ ClearPingAgain

SpecRetry == InitRetry /\ [][NextRetry]_vars

(* ------------------------------------------ accepted and refused calls *)
\* The callables invoked with the requests of the clients and with the
\* requests their guards refuse, in any order.
\* The clock stands at the last instant at which a call may write.
InitAny ==
    /\ contacts \in InitialStores
    /\ fcmToken = Tokens
    /\ now = MaxTime
    /\ last = NoLast
    /\ outbox = <<>>
    /\ procs = <<>>
    /\ profile = DefaultProfiles
    /\ history = <<>>

NextAny ==
    \/ Next
    \/ NextGuard

SpecAny == InitAny /\ [][NextAny]_vars

\* The clients' calls alone, each run on its own, from the same stores.
SpecLocal == InitAny /\ [][Next]_vars

(* ------------------------------------------------- after a fresh add *)
\* u1 has just added u3 (addContactRelation at instant 0, with any role
\* flags) in a store where the two were unrelated: the empty store and the
\* store in which u1 and u2 are related by the first release.  The clock
\* leaves room for two writing calls.
AddedStore(base, isResponder, isDependent) ==
    LET req == [BlankReq EXCEPT !.userId = "u1", !.qrCode = QrLookup["u3"],
                                !.isResponder = isResponder, !.isDependent = isDependent]
    IN ApplyWrites(base, AddContactRelationOutcome(base, 0, req).writes)

InitTrip ==
    /\ contacts \in {AddedStore(base, r, d) :
                        base \in {NoContacts, LegacyStore}, r \in Flags, d \in Flags}
    /\ fcmToken = Tokens
    /\ now = MaxTime - 1
    /\ last = NoLast
    /\ outbox = <<>>
    /\ procs = <<>>
    /\ profile = DefaultProfiles
    /\ history = <<>>

SpecTrip == InitTrip /\ [][Next]_vars

(* ------------------------------------------- after a one-sided response *)
\* u1 pinged its dependent u2 at instant 1 and u2 then called
\* respondToAllPings: u2's incoming timestamp is cleared, u1's outgoing
\* timestamp is still set.  The callables run from that store.
StaleStore ==
    LET HasPing(c) == c.incomingPingTimestamp # NoTs
        list == PingedStore[Path("u2")]
    IN [PingedStore EXCEPT ![Path("u2")] = ClearIncoming(list, SelectSeq(list, HasPing), 1)]

InitStale ==
    /\ contacts = StaleStore
    /\ fcmToken = Tokens
    /\ now = 2
    /\ last = NoLast
    /\ outbox = <<>>
    /\ procs = <<>>
    /\ profile = DefaultProfiles
    /\ history = <<>>

SpecStale == InitStale /\ [][Next]_vars

(* --------------------------------------------- pings in both directions *)
\* u1 and u2 are each the other's responder and dependent.  u1 has pinged
\* u2 at instant 1; in the second store u2 has also pinged u1, at instant 2.
OnePingStore ==
    [MutualStore EXCEPT
        ![Path("u1")][1] = PingUserContact(@, 1),
        ![Path("u2")][1] = PingContactUser(@, 1)]
CrossPingStore ==
    [OnePingStore EXCEPT
        ![Path("u2")][1] = PingUserContact(@, 2),
        ![Path("u1")][1] = PingContactUser(@, 2)]

InitCross ==
    /\ contacts \in {MutualStore, OnePingStore, CrossPingStore}
    /\ fcmToken = Tokens
    /\ now = MaxTime
    /\ last = NoLast
    /\ outbox = <<>>
    /\ procs = <<>>
    /\ profile = DefaultProfiles
    /\ history = <<>>

SpecCross == InitCross /\ [][Next]_vars

(* ======================================================== properties === *)
\* The entries of `list` that reference the user document `ref`.
EntriesFor(list, ref) == {i \in 1..Len(list) : list[i].target = ref}
Refers(list, ref) == EntriesFor(list, ref) # {}
\* A.entry(B) in a list: the first entry referencing B.
EntryOf(list, ref) == list[CHOOSE i \in EntriesFor(list, ref) : \A j \in EntriesFor(list, ref) : i <= j]
HasEntry(a, b) == Refers(contacts[a], b)
Entry(a, b) == EntryOf(contacts[a], b)

Succeeded(op) == last.op = op /\ last.kind = Ok
LastUser == UserRefOf(last.req)
LastContact == ContactRefOf(last.req)

\* C1 (as claimed): after every successful operation, A lists B if and only
\* if B lists A, and the role flags of the two entries mirror each other.
C1_Symmetry ==
    \A a \in UserPaths, b \in UserPaths :
        /\ HasEntry(a, b) <=> HasEntry(b, a)
        /\ HasEntry(a, b) /\ HasEntry(b, a) =>
              /\ Entry(a, b).isResponder = Entry(b, a).isDependent
              /\ Entry(a, b).isDependent = Entry(b, a).isResponder

\* C2 (as claimed): an outgoing ping timestamp on A's entry for B is set if
\* and only if the incoming one on B's entry for A is set, and then they are
\* the same instant.
C2_PingPairing ==
    \A a \in UserPaths, b \in UserPaths :
        HasEntry(a, b) /\ HasEntry(b, a) =>
            /\ Entry(a, b).outgoingPingTimestamp # NoTs <=> Entry(b, a).incomingPingTimestamp # NoTs
            /\ Entry(a, b).outgoingPingTimestamp # NoTs /\ Entry(b, a).incomingPingTimestamp # NoTs
                  => Entry(a, b).outgoingPingTimestamp = Entry(b, a).incomingPingTimestamp

\* C2 (amended): a pending incoming ping on B's entry for A always has its
\* outgoing twin on A's entry for B, carrying the same instant; only the
\* converse is given up (respondToAllPings clears the incoming side alone).
C2_IncomingHasTwin ==
    \A a \in UserPaths, b \in UserPaths :
        HasEntry(b, a) /\ Entry(b, a).incomingPingTimestamp # NoTs =>
            /\ HasEntry(a, b)
            /\ Entry(a, b).outgoingPingTimestamp = Entry(b, a).incomingPingTimestamp

\* C2 witness: a ping is pending on both sides of a relation.
C2_Witness ==
    /\ Succeeded("pingDependent")
    /\ HasEntry(LastUser, LastContact) /\ HasEntry(LastContact, LastUser)
    /\ Entry(LastContact, LastUser).incomingPingTimestamp # NoTs
    /\ Entry(LastUser, LastContact).outgoingPingTimestamp
          = Entry(LastContact, LastUser).incomingPingTimestamp

\* C3: a successful addContactRelation(A, token of B, r, d) leaves A with an
\* entry for B carrying (r, d), B with an entry for A carrying (d, r), both
\* with sendPings and receivePings on, notifyOnCheckIn and notifyOnExpiry
\* equal to the entry's own isResponder, no pending ping, and returns B's id.
C3_EntryAsAdded(e, r, d) ==
    /\ e.isResponder = r /\ e.isDependent = d
    /\ e.sendPings = "true" /\ e.receivePings = "true"
    /\ e.notifyOnCheckIn = ToOpt(e.isResponder)
    /\ e.notifyOnExpiry = ToOpt(e.isResponder)
    /\ e.incomingPingTimestamp = NoTs /\ e.outgoingPingTimestamp = NoTs

C3_AddPostcondition ==
    Succeeded("addContactRelation") =>
        /\ HasEntry(LastUser, LastContact) /\ HasEntry(LastContact, LastUser)
        /\ C3_EntryAsAdded(Entry(LastUser, LastContact),
                           FromOpt(last.req.isResponder), FromOpt(last.req.isDependent))
        /\ C3_EntryAsAdded(Entry(LastContact, LastUser),
                           FromOpt(last.req.isDependent), FromOpt(last.req.isResponder))
        /\ last.contactId = DocId(LastContact)

\* C3 witness: an add with unequal role flags has succeeded.
C3_Witness ==
    /\ Succeeded("addContactRelation")
    /\ last.req.isResponder = "true" /\ last.req.isDependent = "false"

\* The contact lists of the two named documents as the last call found them.
BeforeUser == last.before.user
BeforeContact == last.before.contact
\* The last call was authenticated and named two different existing users.
NamedTwoUsers ==
    /\ last.req.auth
    /\ LastUser \in UserPaths /\ LastContact \in UserPaths
    /\ LastUser # LastContact
ListsUntouched ==
    /\ contacts[LastUser] = BeforeUser
    /\ contacts[LastContact] = BeforeContact

\* C4: while the pair {A, B} is related, addContactRelation by A targeting B
\* or by B targeting A fails with already-exists and leaves both users'
\* contact lists exactly as they were.
C4_DuplicateRejected ==
    /\ last.op = "addContactRelation"
    /\ NamedTwoUsers
    /\ Refers(BeforeUser, LastContact) \/ Refers(BeforeContact, LastUser)
    => /\ last.kind = AlreadyExists
       /\ ListsUntouched

\* C4 witness: u1 added u2 at instant 1 (nobody else is related to anyone),
\* and u2's own attempt to add u1 was then rejected.
C4_Witness ==
    /\ last.op = "addContactRelation" /\ last.kind = AlreadyExists
    /\ LastUser = Path("u2") /\ LastContact = Path("u1")
    /\ contacts[Path("u3")] = <<>>
    /\ HasEntry(Path("u1"), Path("u2")) /\ HasEntry(Path("u2"), Path("u1"))
    /\ Entry(Path("u1"), Path("u2")).form = FormPath
    /\ Entry(Path("u1"), Path("u2")).lastUpdated = 1
    /\ now = 2

\* C5 (as claimed): whatever the interleaving of addContactRelation
\* invocations and whichever of their updates are rejected, no contact list
\* holds two entries referencing the same user.
C5_NoDuplicateEdges ==
    \A a \in UserPaths, b \in UserPaths :
        Cardinality(EntriesFor(contacts[a], b)) <= 1

\* C6: an authenticated addContactRelation whose QR code resolves to the
\* caller fails with invalid-argument and no document changes.
C6_SelfAdd ==
    /\ last'.op = "addContactRelation"
    /\ last'.req.auth
    /\ last'.req.userId # NoId
    /\ ContactRefOf(last'.req) = UserRefOf(last'.req)
    => /\ last'.kind = InvalidArgument
       /\ contacts' = contacts

C6_NoSelfRelation == [][C6_SelfAdd]_vars

\* C6 witness: a self-add has been attempted and rejected.
C6_Witness ==
    /\ last.op = "addContactRelation" /\ last.kind = InvalidArgument
    /\ LastUser \in UserPaths /\ LastContact = LastUser

\* C7 (as claimed): after a successful remove_relation(A, B) neither list
\* references the other user; on an unrelated pair it succeeds and leaves
\* both lists as they were.
IsDelete == last.op \in {"deleteContactRelation", "deleteContactRelationV1"}
C7_Removal ==
    /\ IsDelete /\ last.kind = Ok =>
          /\ ~HasEntry(LastUser, LastContact)
          /\ ~HasEntry(LastContact, LastUser)
    /\ IsDelete /\ NamedTwoUsers /\ ~Refers(BeforeUser, LastContact)
          /\ ~Refers(BeforeContact, LastUser) =>
          /\ last.kind = Ok
          /\ ListsUntouched

\* The entries of a list other than the one at position k are as before,
\* and the list is as long as before.
SameElsewhere(list, old, k) ==
    /\ Len(list) = Len(old)
    /\ \A i \in 1..Len(list) : i # k => list[i] = old[i]
PositionOf(list, ref) == CHOOSE i \in EntriesFor(list, ref) : \A j \in EntriesFor(list, ref) : i <= j

\* What C8 says of roles and of the lists: A's entry for B carries (r, d),
\* B's entry for A carries (d, r), both entries stay where they were and
\* both lists keep every other entry.
C8_RolesSet ==
    /\ HasEntry(LastUser, LastContact) /\ HasEntry(LastContact, LastUser)
    /\ Entry(LastUser, LastContact).isResponder = FromOpt(last.req.isResponder)
    /\ Entry(LastUser, LastContact).isDependent = FromOpt(last.req.isDependent)
    /\ Entry(LastContact, LastUser).isResponder = FromOpt(last.req.isDependent)
    /\ Entry(LastContact, LastUser).isDependent = FromOpt(last.req.isResponder)
    /\ PositionOf(contacts[LastUser], LastContact) = PositionOf(BeforeUser, LastContact)
    /\ PositionOf(contacts[LastContact], LastUser) = PositionOf(BeforeContact, LastUser)
    /\ SameElsewhere(contacts[LastUser], BeforeUser, PositionOf(BeforeUser, LastContact))
    /\ SameElsewhere(contacts[LastContact], BeforeContact, PositionOf(BeforeContact, LastUser))

\* C8 (as claimed): besides the two role flags, every field of B's entry for
\* A is as it was before the call.
C8_RoleUpdateFrame ==
    Succeeded("updateContactRoles") =>
        /\ C8_RolesSet
        /\ Entry(LastContact, LastUser) =
              [EntryOf(BeforeContact, LastUser) EXCEPT
                  !.isResponder = FromOpt(last.req.isDependent),
                  !.isDependent = FromOpt(last.req.isResponder)]

\* C8 (amended): besides the two role flags and lastUpdated, which becomes
\* the instant of the call, every field of B's entry for A is as it was.
C8_RoleUpdateFrameButLastUpdated ==
    Succeeded("updateContactRoles") =>
        /\ C8_RolesSet
        /\ Entry(LastContact, LastUser) =
              [EntryOf(BeforeContact, LastUser) EXCEPT
                  !.isResponder = FromOpt(last.req.isDependent),
                  !.isDependent = FromOpt(last.req.isResponder),
                  !.lastUpdated = now - 1]

\* C8 witness: roles were updated to unequal flags on a relation whose other
\* side holds two entries and had a ping pending.
C8_Witness ==
    /\ Succeeded("updateContactRoles")
    /\ last.req.isResponder # last.req.isDependent
    /\ Len(contacts[LastContact]) = 2
    /\ Entry(LastContact, LastUser).outgoingPingTimestamp # NoTs

\* C9: after a successful pingDependent(A, B) the outgoing timestamp of A's
\* entry for B and the incoming one of B's entry for A are set and equal;
\* after a successful respondToPing(B, A) both are null.
C9_PingRoundTrip ==
    /\ Succeeded("pingDependent") =>
          /\ Entry(LastUser, LastContact).outgoingPingTimestamp # NoTs
          /\ Entry(LastContact, LastUser).incomingPingTimestamp
                = Entry(LastUser, LastContact).outgoingPingTimestamp
    /\ Succeeded("respondToPing") =>
          /\ Entry(LastUser, LastContact).incomingPingTimestamp = NoTs
          /\ Entry(LastContact, LastUser).outgoingPingTimestamp = NoTs

\* C9 witness: respondToPing has answered a ping that was pending on both
\* sides.
C9_Witness ==
    /\ Succeeded("respondToPing")
    /\ EntryOf(BeforeUser, LastContact).incomingPingTimestamp # NoTs
    /\ EntryOf(BeforeContact, LastUser).outgoingPingTimestamp
          = EntryOf(BeforeUser, LastContact).incomingPingTimestamp

\* C10 (as claimed): pingDependent and clearPing on a relation present on
\* both sides, where the caller's entry has isDependent false, fail with
\* failed-precondition.
C10_RoleGuardKind ==
    /\ last.op \in {"pingDependent", "clearPing"}
    /\ NamedTwoUsers
    /\ Refers(BeforeUser, LastContact) /\ Refers(BeforeContact, LastUser)
    /\ ~EntryOf(BeforeUser, LastContact).isDependent
    => last.kind = FailedPrecondition

\* Some entry of a's list carries, after the step, a ping timestamp where the
\* entry for the same user carried none before the step (or did not exist).
PingAppears(a) ==
    \E i \in 1..Len(contacts'[a]) :
        LET e == contacts'[a][i]
            had == Refers(contacts[a], e.target)
            old == EntryOf(contacts[a], e.target)
        IN  \/ e.incomingPingTimestamp # NoTs
               /\ (had => old.incomingPingTimestamp = NoTs)
            \/ e.outgoingPingTimestamp # NoTs
               /\ (had => old.outgoingPingTimestamp = NoTs)

C11_Step ==
    /\ (\E a \in UserPaths : PingAppears(a)) =>
          /\ last'.op = "pingDependent" /\ last'.kind = Ok
          /\ Refers(contacts[UserRefOf(last'.req)], ContactRefOf(last'.req))
          /\ EntryOf(contacts[UserRefOf(last'.req)], ContactRefOf(last'.req)).isDependent
    /\ /\ last'.op = "pingDependent"
       /\ UserRefOf(last'.req) \in UserPaths
       /\ Refers(contacts[UserRefOf(last'.req)], ContactRefOf(last'.req))
       /\ ~EntryOf(contacts[UserRefOf(last'.req)], ContactRefOf(last'.req)).isDependent
       => contacts' = contacts

\* C11: a ping timestamp goes from null to non-null only in a successful
\* pingDependent(A, B) step taken while A's entry for B has isDependent
\* true; a pingDependent call made while it is false changes no document.
C11_OnlyRespondersPing == [][C11_Step]_vars

\* C11 witness: pingDependent has just stamped a relation that carried no
\* ping, and the caller's entry marks the contact as its dependent.
C11_Witness ==
    /\ Succeeded("pingDependent")
    /\ EntryOf(BeforeUser, LastContact).outgoingPingTimestamp = NoTs
    /\ EntryOf(BeforeContact, LastUser).incomingPingTimestamp = NoTs
    /\ EntryOf(BeforeUser, LastContact).isDependent
    /\ Entry(LastUser, LastContact).outgoingPingTimestamp # NoTs
    /\ Entry(LastContact, LastUser).incomingPingTimestamp # NoTs

C12_Step ==
    last'.op = "respondToAllPings" /\ last'.kind = Ok =>
        LET B == UserRefOf(last'.req) IN
        /\ Len(contacts'[B]) = Len(contacts[B])
        /\ \A i \in 1..Len(contacts[B]) :
              /\ contacts'[B][i].incomingPingTimestamp = NoTs
              /\ contacts'[B][i].target = contacts[B][i].target
              /\ contacts'[B][i].outgoingPingTimestamp = contacts[B][i].outgoingPingTimestamp
        /\ \A a \in UserPaths \ {B} : contacts'[a] = contacts[a]

\* C12: a successful respondToAllPings(B) leaves no incoming ping on any
\* entry of B's list and changes no document but B's, so every sender's
\* outgoing timestamp stays as it was.
C12_BulkRespond == [][C12_Step]_vars

\* C12 witness: respondToAllPings has cleared a pending incoming ping whose
\* sender still carries the outgoing timestamp.
C12_Witness ==
    /\ Succeeded("respondToAllPings")
    /\ \E a \in UserPaths :
          /\ Refers(BeforeUser, a) /\ HasEntry(a, LastUser)
          /\ EntryOf(BeforeUser, a).incomingPingTimestamp # NoTs
          /\ Entry(LastUser, a).incomingPingTimestamp = NoTs
          /\ Entry(a, LastUser).outgoingPingTimestamp
                = EntryOf(BeforeUser, a).incomingPingTimestamp

\* C13: after a successful clearPing(A, B), A's entry for B has no outgoing
\* and B's entry for A no incoming ping timestamp; both entries keep their
\* role flags and every other field but lastUpdated, and every other entry
\* of both lists is as it was.
C13_ClearPingEffect ==
    Succeeded("clearPing") =>
        /\ EntryOf(BeforeUser, LastContact).isDependent
        /\ Entry(LastUser, LastContact) =
              [EntryOf(BeforeUser, LastContact) EXCEPT
                  !.outgoingPingTimestamp = NoTs, !.lastUpdated = now - 1]
        /\ Entry(LastContact, LastUser) =
              [EntryOf(BeforeContact, LastUser) EXCEPT
                  !.incomingPingTimestamp = NoTs, !.lastUpdated = now - 1]
        /\ SameElsewhere(contacts[LastUser], BeforeUser, PositionOf(BeforeUser, LastContact))
        /\ SameElsewhere(contacts[LastContact], BeforeContact, PositionOf(BeforeContact, LastUser))

\* C13 witness: clearPing has withdrawn a ping that was pending on both
\* sides, in a list that holds another entry as well.
C13_Witness ==
    /\ Succeeded("clearPing")
    /\ EntryOf(BeforeUser, LastContact).outgoingPingTimestamp # NoTs
    /\ EntryOf(BeforeContact, LastUser).incomingPingTimestamp # NoTs
    /\ Len(contacts[LastUser]) = 2

\* The last call was authenticated and carried every argument its callable
\* requires.
C14_WellFormed ==
    /\ last.req.auth
    /\ last.req.userRefPath # NoPath /\ last.req.contactRefPath # NoPath
    /\ last.op = "updateContactRoles" =>
          last.req.isResponder # Undef /\ last.req.isDependent # Undef
C14_DocMissing == LastUser \notin UserPaths \/ LastContact \notin UserPaths
C14_EdgeMissing ==
    ~Refers(BeforeUser, LastContact) \/ ~Refers(BeforeContact, LastUser)

\* C14 (as claimed): updateContactRoles, pingDependent, respondToPing,
\* clearPing and deleteContactRelation fail with not-found when either user
\* document is missing, and the first four also when the entry is missing on
\* either side.
C14_MissingEdgeKind ==
    /\ /\ last.op \in {"updateContactRoles", "pingDependent", "respondToPing",
                       "clearPing", "deleteContactRelation", "deleteContactRelationV1"}
       /\ C14_WellFormed /\ C14_DocMissing
       => last.kind = NotFound
    /\ /\ last.op \in {"updateContactRoles", "pingDependent", "respondToPing", "clearPing"}
       /\ C14_WellFormed /\ ~C14_DocMissing /\ C14_EdgeMissing
       => last.kind = NotFound

C15_Step ==
    ~last'.req.auth =>
        /\ last'.kind = Unauthenticated
        /\ contacts' = contacts
        /\ outbox' = <<>>

\* C15: every callable invoked without an authenticated caller fails with
\* unauthenticated, whatever its other arguments, and changes no document.
C15_AuthFirst == [][C15_Step]_vars

\* C15 witness: an unauthenticated call that named a user document that
\* does not exist was refused as unauthenticated.
C15_Witness ==
    /\ ~last.req.auth
    /\ last.kind = Unauthenticated
    /\ last.op = "pingDependent"
    /\ last.req.contactRefPath = Path(GhostId)

\* C16: a pingDependent call that passes its guards succeeds and leaves both
\* ping timestamps set whether or not the push send fails; a message is
\* delivered only by a successful pingDependent whose two updates are in
\* place, and only to the push token of the contact.
C16_NotificationAbsorbed ==
    /\ /\ last.op = "pingDependent"
       /\ NamedTwoUsers
       /\ Refers(BeforeUser, LastContact) /\ Refers(BeforeContact, LastUser)
       /\ EntryOf(BeforeUser, LastContact).isDependent
       => /\ last.kind = Ok
          /\ Entry(LastUser, LastContact).outgoingPingTimestamp = now - 1
          /\ Entry(LastContact, LastUser).incomingPingTimestamp = now - 1
    /\ outbox # <<>> =>
          /\ Succeeded("pingDependent")
          /\ Entry(LastUser, LastContact).outgoingPingTimestamp = now - 1
          /\ Entry(LastContact, LastUser).incomingPingTimestamp = now - 1
          /\ fcmToken[LastContact] # Undef
          /\ outbox = <<[token |-> fcmToken[LastContact], title |-> "New Ping",
                         about |-> DocId(LastUser)]>>

\* C16 witness: pingDependent succeeded for a contact that has a push token,
\* yet no message was delivered: the send failed and was absorbed.
C16_Witness ==
    /\ Succeeded("pingDependent")
    /\ fcmToken[LastContact] # Undef
    /\ outbox = <<>>
    /\ Entry(LastUser, LastContact).outgoingPingTimestamp # NoTs
    /\ Entry(LastContact, LastUser).incomingPingTimestamp # NoTs

\* C17 (as claimed): a successful updateContactRelation(A, B) with
\* updateReciprocal true sets, when B holds an entry for A, that entry's
\* receivePings to the given sendPings and its sendPings to the given
\* receivePings; when B holds no entry for A, or updateReciprocal is false,
\* B's document is left as it was.
C17_PreferenceMirror ==
    Succeeded("updateContactRelation") =>
        /\ last.req.updateReciprocal /\ Refers(BeforeContact, LastUser) =>
              /\ last.req.sendPings # Undef =>
                    Entry(LastContact, LastUser).receivePings = last.req.sendPings
              /\ last.req.receivePings # Undef =>
                    Entry(LastContact, LastUser).sendPings = last.req.receivePings
        /\ ~last.req.updateReciprocal \/ ~Refers(BeforeContact, LastUser) =>
              contacts[LastContact] = BeforeContact

\* C18 (as claimed): after every successful updateContactRelation(A, B),
\* B's entry for A has the role flags it had before the call.
C18_ReciprocalRolesKept ==
    Succeeded("updateContactRelation") /\ Refers(BeforeContact, LastUser) =>
        /\ HasEntry(LastContact, LastUser)
        /\ Entry(LastContact, LastUser).isResponder
              = EntryOf(BeforeContact, LastUser).isResponder
        /\ Entry(LastContact, LastUser).isDependent
              = EntryOf(BeforeContact, LastUser).isDependent

\* The position of the entry for the caller that updateContactRelation's
\* reciprocal lookup finds in the contact's list as the call read it; 0 if
\* it finds none.
C18_Reciprocal ==
    FindIndex({i \in 1..Len(BeforeContact) : RelationEntryPath(BeforeContact[i]) = LastUser})

\* C18 (amended): a successful updateContactRelation(A, B) with
\* updateReciprocal true sets, on the entry for A it updates in B's list (the
\* one whose ping preferences it mirrors), isDependent to the given
\* isResponder and isResponder to the given isDependent, each only if given;
\* with updateReciprocal false that entry keeps its role flags.
C18_ReciprocalRolesMirrored ==
    Succeeded("updateContactRelation") /\ C18_Reciprocal # 0 =>
        LET old == BeforeContact[C18_Reciprocal]
            new == contacts[LastContact][C18_Reciprocal]
        IN  /\ Len(contacts[LastContact]) = Len(BeforeContact)
            /\ last.req.updateReciprocal =>
                  /\ new.isDependent = GivenBool(last.req.isResponder, old.isDependent)
                  /\ new.isResponder = GivenBool(last.req.isDependent, old.isResponder)
            /\ ~last.req.updateReciprocal =>
                  /\ new.isDependent = old.isDependent
                  /\ new.isResponder = old.isResponder

\* C18 witness: updateContactRelation was given isResponder with
\* updateReciprocal true, and isDependent of the reciprocal entry changed.
C18_Witness ==
    /\ Succeeded("updateContactRelation")
    /\ last.req.updateReciprocal
    /\ last.req.isResponder = "true"
    /\ Refers(BeforeContact, LastUser)
    /\ ~EntryOf(BeforeContact, LastUser).isDependent
    /\ Entry(LastContact, LastUser).isDependent


(* --------------------------------------------------------- scanner claims *)
Scanned == last.op = "handleNotifications"
\* How many messages of the most recent scan carry this token, title and body.
SentCount(token, title, body) ==
    Cardinality({i \in 1..Len(outbox) :
        /\ outbox[i].token = token
        /\ outbox[i].title = title
        /\ outbox[i].body = body})
BoolToNat(b) == IF b THEN 1 ELSE 0
\* timeLeft as the claim writes it, in the units of the stored numbers
LeftOf(p) == profile[p].lastCheckedIn + profile[p].checkInInterval - now
EarlyDue(p) ==
    /\ profile[p].notify2HoursBefore = "true"
    /\ 114 * 60 * 1000 < LeftOf(p)
    /\ LeftOf(p) < 120 * 60 * 1000
LateDue(p) ==
    /\ profile[p].notify30MinBefore = "true"
    /\ 29 * 60 * 1000 < LeftOf(p)
    /\ LeftOf(p) < 30 * 60 * 1000
HasToken(p) == fcmToken[p] # Undef
IsContactOf(q, p) == \E i \in 1..Len(contacts[p]) : contacts[p][i].target = q

DeadlineInSeconds(p) == profile[p].lastCheckedIn + 1000 * profile[p].checkInInterval
AlertedAbout(p) ==
    \E i \in 1..Len(outbox) :
        /\ outbox[i].title = "Emergency Alert"
        /\ outbox[i].body = profile[p].name \o "'s check-in has expired."

\* C20: after a scan, for every user with a push token and an interval of at
\* most one day, with the deadline taken as lastCheckedIn plus
\* checkInInterval seconds: no emergency alert about the user has been sent
\* unless the deadline has passed, and the "2 hours" reminder has been sent
\* to the user when notify2HoursBefore is set and between 1.9 h and 2 h are
\* left to the deadline.
C20_DeadlineInSeconds ==
    Scanned =>
        \A p \in UserPaths :
            (HasToken(p) /\ profile[p].checkInInterval <= 24 * 60 * 60) =>
                /\ AlertedAbout(p) => now > DeadlineInSeconds(p)
                /\ ( /\ profile[p].notify2HoursBefore = "true"
                     /\ 114 * 60 * 1000 < DeadlineInSeconds(p) - now
                     /\ DeadlineInSeconds(p) - now < 120 * 60 * 1000 )
                   => SentCount(fcmToken[p], "Check-in Reminder",
                                "Your check-in expires in 2 hours") = 1

\* now - lastCheckedIn
SinceOf(p) == now - profile[p].lastCheckedIn
EarlyCount(p) ==
    SentCount(fcmToken[p], "Check-in Reminder", "Your check-in expires in 2 hours")
LateCount(p) ==
    SentCount(fcmToken[p], "Check-in Reminder", "Your check-in expires in 30 minutes")
\* The messages of the most recent scan that are reminders.
ReminderTokens ==
    {outbox[i].token : i \in {j \in 1..Len(outbox) : outbox[j].title = "Check-in Reminder"}}
\* An interval of 2 h, stored as seconds or as milliseconds.
IsTwoHourInterval(p) == profile[p].checkInInterval \in {2 * 60 * 60, 2 * 60 * 60 * 1000}

AlertSent(p, q) ==
    SentCount(fcmToken[q], "Emergency Alert", profile[p].name \o "'s check-in has expired.") > 0
\* The deadline as the scanner computes it has passed.
Lapsed(p) == now > profile[p].lastCheckedIn + profile[p].checkInInterval
IsResponderOf(q, p) ==
    \E i \in 1..Len(contacts[p]) : contacts[p][i].target = q /\ contacts[p][i].isResponder

VisitedAfter(p) ==
    {SnapshotDocs[j] : j \in {k \in 1..Len(SnapshotDocs) :
        \E i \in 1..Len(SnapshotDocs) : SnapshotDocs[i] = p /\ i < k}}
\* Every message of the most recent scan is a reminder or an alert.
OnlyKnownTitles ==
    \A i \in 1..Len(outbox) : outbox[i].title \in {"Check-in Reminder", "Emergency Alert"}

\* The tokens held by users that the service refused in the most recent scan.
RefusedHeld == {fcmToken[q] : q \in {r \in UserPaths : HasToken(r)}} \cap last.refused

\* C25: after a scan, for every user p without a push token: if the service
\* refused no token that a user holds, the scan has returned without error;
\* no message carries an absent token and no alert names p; and when the
\* scan has returned without error, every user with a token visited after p
\* has been sent the reminders due to it and has had its responders alerted
\* exactly when it is past the deadline.
C25_NoTokenSkip ==
    Scanned =>
        \A p \in UserPaths :
            ~HasToken(p) =>
                /\ RefusedHeld = {} => last.kind = Ok
                /\ OnlyKnownTitles
                /\ \A i \in 1..Len(outbox) : outbox[i].token # Undef
                /\ ~AlertedAbout(p)
                /\ last.kind = Ok =>
                       \A q \in VisitedAfter(p) :
                           HasToken(q) =>
                               /\ EarlyCount(q) = BoolToNat(EarlyDue(q))
                               /\ LateCount(q) = BoolToNat(LateDue(q))
                               /\ \A r \in UserPaths :
                                      HasToken(r) =>
                                          (AlertSent(q, r) <=> (Lapsed(q) /\ IsResponderOf(r, q)))

\* C25 witness: a scan visited a user without a token that is past the
\* deadline and holds a responder with a token, sent nothing on that user's
\* account, and sent a user visited later the reminder due to it.
C25_Witness ==
    /\ Scanned
    /\ \E p \in UserPaths, q \in UserPaths :
           /\ ~HasToken(p) /\ Lapsed(p)
           /\ HasToken(q) /\ IsResponderOf(q, p)
           /\ q \in VisitedAfter(p)
           /\ ~AlertedAbout(p)
           /\ last.kind = Ok
           /\ EarlyDue(q) /\ EarlyCount(q) = 1

\* C26: after a scan in which the service refused some sends, every user
\* with a token that the service did not refuse has been sent the reminders
\* due to it, and every responder with such a token has been alerted about
\* every user with a token that is past the deadline.
C26_FailureContained ==
    Scanned =>
        \A q \in UserPaths :
            (HasToken(q) /\ fcmToken[q] \notin last.refused) =>
                /\ EarlyCount(q) = BoolToNat(EarlyDue(q))
                /\ LateCount(q) = BoolToNat(LateDue(q))
                /\ \A p \in UserPaths :
                       (HasToken(p) /\ Lapsed(p) /\ IsResponderOf(q, p)) => AlertSent(p, q)

C27_Step ==
    last'.op = "handleNotifications" =>
        /\ contacts' = contacts
        /\ fcmToken' = fcmToken
        /\ profile' = profile

\* C27: every step that is a scan, whether it returns or ends in an error,
\* leaves every contact list (every entry with its roles, ping timestamps
\* and lastUpdated), every token and every profile field as it found them;
\* the step changes only the messages sent and the clock.
C27_ScanReadOnly == [][C27_Step]_vars

\* C27 witness: a scan has sent messages over a store in which a ping is
\* not involved and entries carry their lastUpdated of instant 0.
C27_Witness ==
    /\ Scanned
    /\ Len(outbox) >= 2
    /\ contacts \in ScanStores
    /\ \E p \in UserPaths : \E i \in 1..Len(contacts[p]) :
           contacts[p][i].lastUpdated = 0 /\ contacts[p][i].isResponder

\* Relationship symmetry and ping pairing of one pair of users.
PairSymmetric(a, b) ==
    /\ HasEntry(a, b) <=> HasEntry(b, a)
    /\ HasEntry(a, b) /\ HasEntry(b, a) =>
          /\ Entry(a, b).isResponder = Entry(b, a).isDependent
          /\ Entry(a, b).isDependent = Entry(b, a).isResponder
OneWayPaired(a, b) ==
    HasEntry(a, b) /\ HasEntry(b, a) =>
        /\ Entry(a, b).outgoingPingTimestamp # NoTs <=> Entry(b, a).incomingPingTimestamp # NoTs
        /\ Entry(a, b).outgoingPingTimestamp # NoTs
              => Entry(a, b).outgoingPingTimestamp = Entry(b, a).incomingPingTimestamp
PairRepaired(a, b) ==
    /\ PairSymmetric(a, b)
    /\ OneWayPaired(a, b) /\ OneWayPaired(b, a)
WasRetried(op) == last.phase = "retried" /\ last.op = op

\* C28 (as claimed): after a call that committed one of its two updates and
\* had the other rejected, the same call made again with the same request
\* leaves the two users symmetric and their ping timestamps paired, for
\* every one of the six pair operations and either rejected update.
C28_RetryRepairs ==
    last.phase = "retried" => PairRepaired(LastUser, LastContact)

\* The same statement for the five operations other than addContactRelation.
RetryRepairsButAdd ==
    last.phase = "retried" /\ last.op # "addContactRelation"
        => last.kind = Ok /\ PairRepaired(LastUser, LastContact)

\* A retried addContactRelation whose first call had the contact's update
\* rejected is refused, and the contact still does not list the caller.
AddRetryRefused ==
    WasRetried("addContactRelation") /\ last.failed = 2
        => /\ last.kind = AlreadyExists
           /\ HasEntry(LastUser, LastContact)
           /\ ~HasEntry(LastContact, LastUser)

\* No invocation is between its start and its answer, and none had an
\* update rejected.
NoneInFlight == \A p \in 1..Len(procs) : procs[p].pc = "done"
NoneRejected == \A p \in 1..Len(procs) : procs[p].kind # AddRethrow(Internal)

\* C29 (as claimed): under overlapping invocations whose updates all
\* commit, once every invocation has answered, A lists B if and only if B
\* lists A and the role flags of the two entries mirror each other, for
\* every pair of users.
C29_QuiescentSymmetry ==
    NoneInFlight /\ NoneRejected =>
        \A a \in UserPaths, b \in UserPaths : PairSymmetric(a, b)

\* C30 (as claimed): after a scan, for every user p, with a push token or
\* without one, whose deadline has passed, the emergency alert naming p has
\* been sent to the token of every user q that p's list holds with
\* isResponder true and that has a push token.
C30_RespondersAlerted ==
    Scanned =>
        \A p \in UserPaths, q \in UserPaths :
            Lapsed(p) /\ IsResponderOf(q, p) /\ HasToken(q) => AlertSent(p, q)

(* ----------------------------------------------------------- cycle claims *)
\* The scans of the history made after p's last check-in.
CycleScans(p) == {k \in 1..Len(history) : history[k].at > profile[p].lastCheckedIn}
\* Whether scan k sent a message with this token, title and body.
ScanSent(k, token, title, body) ==
    \E i \in 1..Len(history[k].sent) :
        /\ history[k].sent[i].token = token
        /\ history[k].sent[i].title = title
        /\ history[k].sent[i].body = body
EarlyScans(p) ==
    {k \in CycleScans(p) :
        ScanSent(k, fcmToken[p], "Check-in Reminder", "Your check-in expires in 2 hours")}
LateScans(p) ==
    {k \in CycleScans(p) :
        ScanSent(k, fcmToken[p], "Check-in Reminder", "Your check-in expires in 30 minutes")}

\* C22: with scans fifteen minutes apart, among the scans made since a
\* user's last check-in at most one sent that user the "2 hours" reminder and
\* at most one sent the "30 minutes" reminder.
C22_AtMostOncePerCycle ==
    \A p \in UserPaths :
        HasToken(p) =>
            /\ Cardinality(EarlyScans(p)) <= 1
            /\ Cardinality(LateScans(p)) <= 1

\* C22 witness: since its last check-in a user has been scanned three times
\* or more, and one of those scans, followed by a later one, sent it a
\* reminder.
C22_Witness ==
    \E p \in UserPaths :
        /\ HasToken(p)
        /\ Cardinality(CycleScans(p)) >= 3
        /\ \E k \in EarlyScans(p) \cup LateScans(p) :
               \E j \in CycleScans(p) : j > k

\* The alert naming p in the messages of scan k, addressed to q's token.
ScanAlerted(k, p, q) ==
    ScanSent(k, fcmToken[q], "Emergency Alert", profile[p].name \o "'s check-in has expired.")
\* p's deadline, as the scanner computes it, had passed at scan k.
LapsedAt(k, p) == history[k].at > profile[p].lastCheckedIn + profile[p].checkInInterval

LeftAt(k, p) == profile[p].lastCheckedIn + profile[p].checkInInterval - history[k].at

\* C31 (as claimed): for a user with a push token and notify2HoursBefore
\* set, whenever two scans made since the last check-in found the time left
\* above 2 hours and then below 1.9 hours, one of the scans from the first to
\* the second sent the "2 hours" reminder; likewise for notify30MinBefore
\* with 30 and 29 minutes and the "30 minutes" reminder.
C31_RemindersDelivered ==
    \A p \in UserPaths :
        HasToken(p) =>
            \A k \in CycleScans(p), j \in CycleScans(p) :
                /\ (/\ profile[p].notify2HoursBefore = "true"
                    /\ LeftAt(k, p) > TwoHours /\ LeftAt(j, p) < TwoHoursLow)
                      => \E m \in EarlyScans(p) : k <= m /\ m <= j
                /\ (/\ profile[p].notify30MinBefore = "true"
                    /\ LeftAt(k, p) > HalfHour /\ LeftAt(j, p) < HalfHourLow)
                      => \E m \in LateScans(p) : k <= m /\ m <= j


\* The orders in which a snapshot may list the three documents.
Orders ==
    {<<a, b, c>> : a \in UserPaths, b \in UserPaths, c \in UserPaths} \cap
    {o \in Seq(UserPaths) : Len(o) = 3 /\ o[1] # o[2] /\ o[1] # o[3] /\ o[2] # o[3]}
CountIn(msgs, m) == Cardinality({i \in 1..Len(msgs) : msgs[i] = m})
SameMessages(x, y) ==
    /\ Len(x) = Len(y)
    /\ \A i \in 1..Len(x) : CountIn(x, x[i]) = CountIn(y, x[i])
\* What the loop body sends for the document p at the current instant.
SentFor(p) == UserMessages(profile[p], fcmToken[p], contacts[p], fcmToken, now)

\* C32: a scan whose reads and sends all return ends having sent, for each
\* of the three user documents once, what the loop body sends for that
\* document, and a scan visiting the documents in any other order sends the
\* same messages the same number of times.
C32_EachUserOnce ==
    Scanned =>
        /\ outbox = SentFor(Path("u1")) \o SentFor(Path("u2")) \o SentFor(Path("u3"))
        /\ \A o \in Orders :
               /\ ScanMessages(o, profile, contacts, fcmToken, now)
                     = SentFor(o[1]) \o SentFor(o[2]) \o SentFor(o[3])
               /\ SameMessages(ScanMessages(o, profile, contacts, fcmToken, now), outbox)

\* C32 witness: a scan sent messages for two different documents, so that
\* another visiting order sends them in another sequence.
C32_Witness ==
    /\ Scanned
    /\ SentFor(Path("u1")) # <<>> /\ SentFor(Path("u2")) # <<>>
    /\ \E o \in Orders : ScanMessages(o, profile, contacts, fcmToken, now) # outbox


\* The call just made named two users that each held, before the call, an
\* entry for the other in the form addContactRelation writes.
PairOps ==
    {"updateContactRoles", "updateContactRelation", "deleteContactRelation",
     "pingDependent", "respondToPing", "clearPing"}
AddedBefore(list, ref) == Refers(list, ref) /\ EntryOf(list, ref).form = FormPath
CalledOnAddedPair ==
    /\ last.op \in PairOps
    /\ AddedBefore(last.before.user, LastContact)
    /\ AddedBefore(last.before.contact, LastUser)
\* The role guard of pingDependent and clearPing was met.
GuardMet ==
    last.op \in {"pingDependent", "clearPing"}
        => EntryOf(last.before.user, LastContact).isDependent

\* C33 (as claimed): a call of updateContactRoles, updateContactRelation,
\* deleteContactRelation, pingDependent, respondToPing or clearPing for two
\* users that addContactRelation related, with the role guard met, finds the
\* entries on both sides and succeeds.
C33_OneResolution ==
    CalledOnAddedPair /\ GuardMet => last.kind = Ok

\* The same statement for the five operations other than updateContactRelation.
OneResolutionButRelation ==
    CalledOnAddedPair /\ GuardMet /\ last.op # "updateContactRelation" => last.kind = Ok


\* a's entry for b carries an outgoing ping while b's entry for a carries
\* no incoming one.
Stale(a, b) ==
    /\ HasEntry(a, b) /\ HasEntry(b, a)
    /\ Entry(a, b).outgoingPingTimestamp # NoTs
    /\ Entry(b, a).incomingPingTimestamp = NoTs
\* The call recorded in `rec` named user and contact in this order.
Named(rec, op, user, contact) ==
    rec.op = op /\ UserRefOf(rec.req) = user /\ ContactRefOf(rec.req) = contact
\* The calls other than respondToPing(b, a) that the claim lets change the
\* stale timestamp: clearPing(a, b), pingDependent(a, b) and the removal of
\* the relation of a and b (by either release, named from either side).
MayTouch(rec, a, b) ==
    \/ Named(rec, "clearPing", a, b)
    \/ Named(rec, "pingDependent", a, b)
    \/ \E op \in {"deleteContactRelation", "deleteContactRelationV1"} :
           Named(rec, op, a, b) \/ Named(rec, op, b, a)
C34_Step(a, b) ==
    Stale(a, b) =>
        IF Named(last', "respondToPing", b, a)
          THEN /\ last'.kind = Ok
               /\ Entry(a, b)'.outgoingPingTimestamp = NoTs
               /\ Entry(b, a)'.incomingPingTimestamp = NoTs
          ELSE ~MayTouch(last', a, b) =>
                  /\ HasEntry(a, b)'
                  /\ Entry(a, b)'.outgoingPingTimestamp = Entry(a, b).outgoingPingTimestamp

\* C34: from a state where a's entry for b has an outgoing ping and b's
\* entry for a has no incoming one, respondToPing(b, a) succeeds and leaves
\* both timestamps null; every other call, except clearPing(a, b),
\* pingDependent(a, b) and the removal of the relation, leaves a's outgoing
\* timestamp as it was.
C34_StaleHealed == [][\A a \in UserPaths, b \in UserPaths : C34_Step(a, b)]_vars

\* C34 witness: respondToPing(u2, u1) has run on the store u2's
\* respondToAllPings left, where u2 is u1's dependent and had no incoming
\* ping, and the pair is paired again.
C34_Witness ==
    /\ Named(last, "respondToPing", Path("u2"), Path("u1"))
    /\ last.kind = Ok
    /\ last.before.contact = StaleStore[Path("u1")]
    /\ last.before.user = StaleStore[Path("u2")]
    /\ Entry(Path("u1"), Path("u2")).outgoingPingTimestamp = NoTs
    /\ Entry(Path("u2"), Path("u1")).incomingPingTimestamp = NoTs
    /\ ~Entry(Path("u2"), Path("u1")).isDependent


C35_Step ==
    last'.kind # Ok =>
        /\ contacts' = contacts
        /\ fcmToken' = fcmToken
        /\ profile' = profile

\* C35: every call that ends in an error (no caller identity, a missing
\* argument, an unknown qr code, adding oneself, a missing user document, a
\* missing entry, a duplicate add, a role guard not met) leaves every contact
\* list, every token and every profile as it was before the call.
C35_RejectedChangesNothing == [][C35_Step]_vars

\* C35 witness: a duplicate addContactRelation was refused on a store that
\* holds entries, and the caller's list is the list the call found.
C35_Witness ==
    /\ last.op = "addContactRelation"
    /\ last.kind = AlreadyExists
    /\ contacts[LastUser] # <<>>
    /\ contacts[LastUser] = last.before.user
    /\ contacts[LastContact] = last.before.contact


\* C36 (as claimed): in every state reached by successful calls, an entry
\* that carries an outgoing ping timestamp has isDependent true.
C36_PingToDependent ==
    \A a \in UserPaths : \A i \in 1..Len(contacts[a]) :
        contacts[a][i].outgoingPingTimestamp # NoTs => contacts[a][i].isDependent


\* `after` is `before` with, at most, the named timestamp and lastUpdated
\* of the entries referencing `ref` changed.
OnlyIncomingChanged(before, after, ref) ==
    /\ Len(after) = Len(before)
    /\ \A i \in 1..Len(before) :
           IF before[i].target = ref
             THEN [after[i] EXCEPT !.incomingPingTimestamp = before[i].incomingPingTimestamp,
                                   !.lastUpdated = before[i].lastUpdated] = before[i]
             ELSE after[i] = before[i]
OnlyOutgoingChanged(before, after, ref) ==
    /\ Len(after) = Len(before)
    /\ \A i \in 1..Len(before) :
           IF before[i].target = ref
             THEN [after[i] EXCEPT !.outgoingPingTimestamp = before[i].outgoingPingTimestamp,
                                   !.lastUpdated = before[i].lastUpdated] = before[i]
             ELSE after[i] = before[i]

\* C37: after a successful respondToPing(B, A), B's list differs from the
\* list the call found at most in incomingPingTimestamp and lastUpdated of
\* its entry for A, and A's list at most in outgoingPingTimestamp and
\* lastUpdated of its entry for B; so B's outgoing and A's incoming
\* timestamp and all role flags are as before.
C37_OneDirection ==
    Succeeded("respondToPing") =>
        /\ OnlyIncomingChanged(last.before.user, contacts[LastUser], LastContact)
        /\ OnlyOutgoingChanged(last.before.contact, contacts[LastContact], LastUser)

\* C37 witness: respondToPing(B, A) ran while pings were pending in both
\* directions; the ping from A to B is cleared and the one from B to A is
\* still pending on both sides.
C37_Witness ==
    /\ Succeeded("respondToPing")
    /\ EntryOf(last.before.user, LastContact).incomingPingTimestamp # NoTs
    /\ EntryOf(last.before.user, LastContact).outgoingPingTimestamp # NoTs
    /\ Entry(LastUser, LastContact).incomingPingTimestamp = NoTs
    /\ Entry(LastContact, LastUser).outgoingPingTimestamp = NoTs
    /\ Entry(LastUser, LastContact).outgoingPingTimestamp # NoTs
    /\ Entry(LastContact, LastUser).incomingPingTimestamp
          = Entry(LastUser, LastContact).outgoingPingTimestamp


\* The entries of `list` that do not reference `ref`, in their order.
Others(list, ref) == SelectSeq(list, LAMBDA e : e.target # ref)
PairCalls ==
    {"addContactRelation", "updateContactRoles", "updateContactRelation",
     "deleteContactRelation", "deleteContactRelationV1",
     "pingDependent", "respondToPing", "clearPing"}
C38_Step ==
    last'.op \in PairCalls /\ last'.kind = Ok =>
        LET user == UserRefOf(last'.req)
            contact == ContactRefOf(last'.req)
        IN /\ \A d \in UserPaths \ {user, contact} : contacts'[d] = contacts[d]
           /\ Others(contacts'[user], contact) = Others(contacts[user], contact)
           /\ Others(contacts'[contact], user) = Others(contacts[contact], user)
           /\ fcmToken' = fcmToken
           /\ profile' = profile

\* C38: a successful call of a pair operation for (A, B) leaves every
\* document other than A's and B's unchanged, and leaves in A's list the
\* entries that do not reference B, and in B's list those that do not
\* reference A, with the same contents in the same order.
C38_LocalToPair == [][C38_Step]_vars

\* C38 witness: deleteContactRelation(A, B) found two entries in A's list
\* and left the one that does not reference B.
C38_Witness ==
    /\ Succeeded("deleteContactRelation")
    /\ Len(last.before.user) = 2
    /\ Len(contacts[LastUser]) = 1
    /\ contacts[LastUser][1] = last.before.user[2]
    /\ contacts[LastUser][1].target # LastContact


\* deleteContactRelation has just succeeded for u1 and u3, named from
\* either side.
RemovedFreshPair ==
    /\ Succeeded("deleteContactRelation")
    /\ {LastUser, LastContact} = {Path("u1"), Path("u3")}

C40_NoLostUpdates ==
    NoneInFlight =>
        \A p \in 1..Len(procs) :
            procs[p].kind = Ok =>
                /\ HasEntry(UserRefOf(procs[p].req), ContactRefOf(procs[p].req))
                /\ HasEntry(ContactRefOf(procs[p].req), UserRefOf(procs[p].req))

====
